---- MODULE Spec2Model ----
(***************************************************************************)
(* A model of gocui's editable View (buffer, wrapped view lines, cursor    *)
(* and origin), of its editor operations, and of the undo/redo command log *)
(* (Context) with the Commands that the editor's key handlers record.      *)
(*                                                                         *)
(* Go slices are 0-based, TLA+ sequences 1-based: the Go expression        *)
(* v.lines[y] is written v.lines[y + 1] here.  A rune is a one-character   *)
(* string.  A run-time panic of the Go program (an index or a slice bound  *)
(* out of range) sets the view's abort field; an aborted program takes no  *)
(* further step.                                                           *)
(***************************************************************************)
EXTENDS Integers, Sequences, FiniteSets, TLC

VARIABLES
    v,      \* the edited View                      (edit.go, type View)
    con,    \* v.Actions, the command log           (undo.go, type Context)
    g,      \* the fields of the Gui the model uses (gui.go, type Gui)
    last,   \* history: the operation of the last step and what it recorded
    mon     \* history: the lines at the moments the laws below refer to

vars == <<v, con, g, last, mon>>

(***************************************************************************)
(* Bounds of the model.                                                    *)
(***************************************************************************)
MaxSteps == 5      \* the main loop is followed for MaxSteps iterations
MaxLines == 2      \* the Lines of a buffer handed to View.draw
MaxLineLen == 5    \* the runes of such a Line

\* The filler rune '\x00' that absWriteRune pads with.
NUL == "0"
SPACE == " "
Runes == {"a", "b"}

\* The right and the bottom edge of the view's rectangle, its left and top
\* edge being 0: the view shows x1 - 1 columns and y1 - 1 rows.
ViewX1 == {4}
ViewY1 == {4}

\* The right edges of the views handed to View.draw: a wrapping view of
\* right edge x1 wraps at x1 - 2 columns.
DrawX1 == 1..5

(***************************************************************************)
(* Go slices.                                                              *)
(***************************************************************************)
\* s[a:b]
Slice(s, a, b) == SubSeq(s, a + 1, b)

\* s[a:]
SliceFrom(s, a) == SubSeq(s, a + 1, Len(s))

\* make([]T, n): n zero values
Zeros(n, z) == [i \in 1..n |-> z]

(***************************************************************************)
(* View: geometry, cursor and origin.                                      *)
(***************************************************************************)
Size(w) == [x |-> w.x1 - w.x0 - 1, y |-> w.y1 - w.y0 - 1]

newView(x0, y0, x1, y1) ==
    [x0 |-> x0, y0 |-> y0, x1 |-> x1, y1 |-> y1,
     ox |-> 0, oy |-> 0, cx |-> 0, cy |-> 0,
     lines |-> <<>>, tainted |-> TRUE, viewLines |-> <<>>,
     Overwrite |-> FALSE, Wrap |-> FALSE, Autoscroll |-> FALSE,
     abort |-> FALSE]

\* SetCursor: refused outside the viewport.
SetCursor(w, x, y) ==
    IF x < 0 \/ x >= Size(w).x \/ y < 0 \/ y >= Size(w).y
    THEN w
    ELSE [w EXCEPT !.cx = x, !.cy = y]

SetCursorFails(w, x, y) == x < 0 \/ x >= Size(w).x \/ y < 0 \/ y >= Size(w).y

\* SetOrigin: refused for a negative coordinate.
SetOrigin(w, x, y) ==
    IF x < 0 \/ y < 0 THEN w ELSE [w EXCEPT !.ox = x, !.oy = y]

(***************************************************************************)
(* View.draw: the regeneration of the view lines.                          *)
(***************************************************************************)
\* A faulty regeneration that shows only the first wrapWidth runes of a Line.
NoRemainingLines(line, i, n, maxX) == <<>>

\* The loop "for n := maxX; n < len(line); n += maxX" of View.draw.
RECURSIVE RemainingLines(_, _, _, _)
RemainingLines(line, i, n, maxX) ==
    IF n >= Len(line) THEN <<>>
    ELSE <<[linesX |-> n, linesY |-> i,
            line |-> IF Len(SliceFrom(line, n)) <= maxX
                     THEN SliceFrom(line, n)
                     ELSE Slice(line, n, n + maxX)]>>
         \o RemainingLines(line, i, n + maxX, maxX)

\* The view lines of Line i (0-based), maxX > 0 being the wrap width.
WrapLine(line, i, maxX) ==
    IF Len(line) <= maxX
    THEN <<[linesX |-> 0, linesY |-> i, line |-> line]>>
    ELSE <<[linesX |-> 0, linesY |-> i, line |-> Slice(line, 0, maxX)]>>
         \o RemainingLines(line, i, maxX, maxX)

RECURSIVE Regenerate(_, _, _, _)
Regenerate(lines, i, wrap, maxX) ==
    IF i >= Len(lines) THEN <<>>
    ELSE (IF wrap THEN WrapLine(lines[i + 1], i, maxX)
          ELSE <<[linesX |-> 0, linesY |-> i, line |-> lines[i + 1]]>>)
         \o Regenerate(lines, i + 1, wrap, maxX)

\* The width View.draw wraps at: the view's width, less one when wrapping.
WrapWidth(w) == IF w.Wrap THEN Size(w).x - 1 ELSE Size(w).x

\* View.draw returns the error "X size of the view cannot be 0".
drawFails(w) == w.Wrap /\ WrapWidth(w) = 0

\* line[:maxX] with a negative maxX: slice bounds out of range.
drawPanics(w) ==
    /\ w.Wrap /\ WrapWidth(w) < 0 /\ w.tainted /\ Len(w.lines) > 0

\* A faulty View.draw that does not empty the view lines before it
\* regenerates them.
drawAppends(w) ==
    IF w.abort \/ drawFails(w) THEN w
    ELSE IF drawPanics(w) THEN [w EXCEPT !.abort = TRUE]
    ELSE LET w1 == IF w.Wrap THEN [w EXCEPT !.ox = 0] ELSE w
         IN IF w1.tainted
            THEN [w1 EXCEPT
                    !.viewLines =
                        w1.viewLines
                        \o Regenerate(w1.lines, 0, w1.Wrap, WrapWidth(w1)),
                    !.tainted = FALSE]
            ELSE w1

draw(w) ==
    IF w.abort \/ drawFails(w) THEN w
    ELSE IF drawPanics(w) THEN [w EXCEPT !.abort = TRUE]
    ELSE LET w1 == IF w.Wrap THEN [w EXCEPT !.ox = 0] ELSE w
             w2 == IF w1.tainted
                   THEN [w1 EXCEPT
                           !.viewLines =
                               Regenerate(w1.lines, 0, w1.Wrap, WrapWidth(w1)),
                           !.tainted = FALSE]
                   ELSE w1
         IN IF w2.Autoscroll /\ Len(w2.viewLines) > Size(w2).y
            THEN [w2 EXCEPT !.oy = Len(w2.viewLines) - Size(w2).y]
            ELSE w2

(***************************************************************************)
(* View.realPosition.                                                      *)
(***************************************************************************)
\* A faulty realPosition that forgets the offset of a wrapped view line.
realPositionOfColumn(w, vx0, vy0) ==
    LET vx == w.ox + vx0
        vy == w.oy + vy0
    IN IF vx < 0 \/ vy < 0 THEN [x |-> 0, y |-> 0, err |-> TRUE]
       ELSE IF Len(w.viewLines) = 0 THEN [x |-> vx, y |-> vy, err |-> FALSE]
       ELSE IF vy < Len(w.viewLines)
            THEN [x |-> vx, y |-> w.viewLines[vy + 1].linesY, err |-> FALSE]
            ELSE [x |-> vx,
                  y |-> w.viewLines[Len(w.viewLines)].linesY
                        + vy - Len(w.viewLines) + 1,
                  err |-> FALSE]

\* A faulty realPosition that answers the last Line for every row below the
\* view lines.
realPositionOnLastLine(w, vx0, vy0) ==
    LET vx == w.ox + vx0
        vy == w.oy + vy0
    IN IF vx < 0 \/ vy < 0 THEN [x |-> 0, y |-> 0, err |-> TRUE]
       ELSE IF Len(w.viewLines) = 0 THEN [x |-> vx, y |-> vy, err |-> FALSE]
       ELSE IF vy < Len(w.viewLines)
            THEN [x |-> w.viewLines[vy + 1].linesX + vx,
                  y |-> w.viewLines[vy + 1].linesY, err |-> FALSE]
            ELSE [x |-> vx, y |-> w.viewLines[Len(w.viewLines)].linesY,
                  err |-> FALSE]

realPosition(w, vx0, vy0) ==
    LET vx == w.ox + vx0
        vy == w.oy + vy0
    IN IF vx < 0 \/ vy < 0 THEN [x |-> 0, y |-> 0, err |-> TRUE]
       ELSE IF Len(w.viewLines) = 0 THEN [x |-> vx, y |-> vy, err |-> FALSE]
       ELSE IF vy < Len(w.viewLines)
            THEN [x |-> w.viewLines[vy + 1].linesX + vx,
                  y |-> w.viewLines[vy + 1].linesY, err |-> FALSE]
            ELSE [x |-> vx,
                  y |-> w.viewLines[Len(w.viewLines)].linesY
                        + vy - Len(w.viewLines) + 1,
                  err |-> FALSE]

(***************************************************************************)
(* The buffer primitives on absolute coordinates, and their variants on    *)
(* view coordinates.  Each returns the view it leaves; the error a Go      *)
(* primitive returns is given by the predicate of the same name + "Fails". *)
(***************************************************************************)
\* A faulty write that replaces the rune at x in insert mode too.
WriteOverLine(line, x, ch, overwrite) ==
    IF x >= Len(line) THEN line \o Zeros(x - Len(line), NUL) \o <<ch>>
    ELSE [line EXCEPT ![x + 1] = ch]

\* The Line that absWriteRune leaves at y, line being the Line before.
WriteInLine(line, x, ch, overwrite) ==
    IF x >= Len(line) THEN line \o Zeros(x - Len(line), NUL) \o <<ch>>
    ELSE IF ~overwrite THEN Slice(line, 0, x) \o <<ch>> \o SliceFrom(line, x)
    ELSE [line EXCEPT ![x + 1] = ch]

absWriteRuneFails(w, x, y) == x < 0 \/ y < 0

absWriteRune(w, x, y, ch) ==
    IF w.abort THEN w
    ELSE IF absWriteRuneFails(w, x, y) THEN [w EXCEPT !.tainted = TRUE]
    ELSE LET padded == IF y >= Len(w.lines)
                       THEN w.lines \o Zeros(y - Len(w.lines) + 1, <<>>)
                       ELSE w.lines
         IN [w EXCEPT
               !.tainted = TRUE,
               !.lines = [padded EXCEPT
                            ![y + 1] = WriteInLine(padded[y + 1], x, ch,
                                                   w.Overwrite)]]

\* A faulty writeRune that takes the view point for the buffer point.
writeRuneAtViewPoint(w, x, y, ch) == absWriteRune(w, x, y, ch)

writeRune(w, x, y, ch) ==
    LET rp == realPosition(w, x, y)
    IN IF w.abort \/ rp.err THEN w ELSE absWriteRune(w, rp.x, rp.y, ch)

absDeleteRuneFails(w, x, y) ==
    x < 0 \/ y < 0 \/ y >= Len(w.lines) \/ x >= Len(w.lines[y + 1])

absDeleteRune(w, x, y) ==
    IF w.abort THEN w
    ELSE IF absDeleteRuneFails(w, x, y) THEN [w EXCEPT !.tainted = TRUE]
    ELSE [w EXCEPT
            !.tainted = TRUE,
            !.lines[y + 1] = Slice(w.lines[y + 1], 0, x)
                             \o SliceFrom(w.lines[y + 1], x + 1)]

deleteRune(w, x, y) ==
    LET rp == realPosition(w, x, y)
    IN IF w.abort \/ rp.err THEN w ELSE absDeleteRune(w, rp.x, rp.y)

deleteRuneFails(w, x, y) ==
    LET rp == realPosition(w, x, y)
    IN rp.err \/ absDeleteRuneFails(w, rp.x, rp.y)

\* "invalid point" for a y outside the buffer, "last line" for the final Line.
absMergeLinesFails(w, y) == y < 0 \/ y >= Len(w.lines) - 1

\* A faulty absMergeLines without the test of the final Line: v.lines[y+1]
\* is out of range there.
absMergeLinesUnchecked(w, y) ==
    IF w.abort THEN w
    ELSE IF y < 0 \/ y >= Len(w.lines) THEN [w EXCEPT !.tainted = TRUE]
    ELSE IF y = Len(w.lines) - 1 THEN [w EXCEPT !.abort = TRUE]
    ELSE [w EXCEPT
            !.tainted = TRUE,
            !.lines = Slice(w.lines, 0, y)
                      \o <<w.lines[y + 1] \o w.lines[y + 2]>>
                      \o SliceFrom(w.lines, y + 2)]

\* A faulty absMergeLines that appends Line y + 1 and leaves it in place.
absMergeLinesKeepsNext(w, y) ==
    IF w.abort THEN w
    ELSE IF absMergeLinesFails(w, y) THEN [w EXCEPT !.tainted = TRUE]
    ELSE [w EXCEPT
            !.tainted = TRUE,
            !.lines[y + 1] = w.lines[y + 1] \o w.lines[y + 2]]

\* A faulty absMergeLines that removes Line y + 1 without appending it.
absMergeLinesDropsNext(w, y) ==
    IF w.abort THEN w
    ELSE IF absMergeLinesFails(w, y) THEN [w EXCEPT !.tainted = TRUE]
    ELSE [w EXCEPT
            !.tainted = TRUE,
            !.lines = Slice(w.lines, 0, y + 1) \o SliceFrom(w.lines, y + 2)]

absMergeLines(w, y) ==
    IF w.abort THEN w
    ELSE IF absMergeLinesFails(w, y) THEN [w EXCEPT !.tainted = TRUE]
    ELSE [w EXCEPT
            !.tainted = TRUE,
            !.lines = Slice(w.lines, 0, y)
                      \o <<w.lines[y + 1] \o w.lines[y + 2]>>
                      \o SliceFrom(w.lines, y + 2)]

mergeLines(w, y) ==
    LET rp == realPosition(w, 0, y)
    IN IF w.abort \/ rp.err THEN w ELSE absMergeLines(w, rp.y)

mergeLinesFails(w, y) ==
    LET rp == realPosition(w, 0, y)
    IN rp.err \/ absMergeLinesFails(w, rp.y)

absBreakLineFails(w, x, y) == y < 0 \/ y >= Len(w.lines)

\* v.lines[y][:x] with a negative x: slice bounds out of range.
absBreakLinePanics(w, x, y) == ~absBreakLineFails(w, x, y) /\ x < 0

\* A faulty absBreakLine that leaves the whole Line before the break.
absBreakLineKeepsLeft(w, x, y) ==
    IF w.abort THEN w
    ELSE IF absBreakLineFails(w, x, y) THEN [w EXCEPT !.tainted = TRUE]
    ELSE IF absBreakLinePanics(w, x, y)
         THEN [w EXCEPT !.tainted = TRUE, !.abort = TRUE]
    ELSE LET line == w.lines[y + 1]
             right == IF x < Len(line) THEN SliceFrom(line, x) ELSE <<>>
         IN [w EXCEPT
               !.tainted = TRUE,
               !.lines = Slice(w.lines, 0, y) \o <<line, right>>
                         \o SliceFrom(w.lines, y + 1)]

absBreakLine(w, x, y) ==
    IF w.abort THEN w
    ELSE IF absBreakLineFails(w, x, y) THEN [w EXCEPT !.tainted = TRUE]
    ELSE IF absBreakLinePanics(w, x, y)
         THEN [w EXCEPT !.tainted = TRUE, !.abort = TRUE]
    ELSE LET line == w.lines[y + 1]
             left == IF x < Len(line) THEN Slice(line, 0, x) ELSE line
             right == IF x < Len(line) THEN SliceFrom(line, x) ELSE <<>>
         IN [w EXCEPT
               !.tainted = TRUE,
               !.lines = Slice(w.lines, 0, y) \o <<left, right>>
                         \o SliceFrom(w.lines, y + 1)]

\* View.Write, rune by rune from the i-th on: a line feed appends an empty
\* Line, a carriage return empties the last Line, any other rune is
\* appended to the last Line; without Lines the last two make the first.
RECURSIVE WriteRunes(_, _, _)
WriteRunes(lines, p, i) ==
    IF i > Len(p) THEN lines
    ELSE LET ch == p[i]
             nl == Len(lines)
             next == CASE ch = "\n" -> Append(lines, <<>>)
                       [] ch = "\r" ->
                            IF nl > 0 THEN [lines EXCEPT ![nl] = <<>>]
                            ELSE << <<>> >>
                       [] OTHER ->
                            IF nl > 0
                            THEN [lines EXCEPT ![nl] = Append(@, ch)]
                            ELSE << <<ch>> >>
         IN WriteRunes(next, p, i + 1)

Write(w, p) ==
    IF w.abort THEN w
    ELSE [w EXCEPT !.tainted = TRUE, !.lines = WriteRunes(w.lines, p, 1)]

\* "invalid line" for a y1 or y2 outside the buffer.
permutLinesFails(w, y1, y2) ==
    y1 < 0 \/ y2 < 0 \/ y1 >= Len(w.lines) \/ y2 >= Len(w.lines)

\* permutLines exchanges the Lines y1 and y2; it does not touch tainted.
permutLines(w, y1, y2) ==
    IF w.abort \/ permutLinesFails(w, y1, y2) THEN w
    ELSE [w EXCEPT !.lines = [w.lines EXCEPT ![y1 + 1] = w.lines[y2 + 1],
                                             ![y2 + 1] = w.lines[y1 + 1]]]

breakLine(w, x, y) ==
    LET rp == realPosition(w, x, y)
    IN IF w.abort \/ rp.err THEN w ELSE absBreakLine(w, rp.x, rp.y)

(***************************************************************************)
(* The cursor predicates of the movement primitives.                       *)
(***************************************************************************)
isEmpty(w) == Len(w.lines) = 0

bol(w) == w.ox = 0 /\ w.cx = 0

bob(w) == w.cx = 0

\* eol indexes v.lines[ry]: out of range when the cursor's row lies below
\* the buffer.
eolPanics(w) ==
    LET rp == realPosition(w, w.cx, w.cy)
    IN ~rp.err /\ rp.y >= Len(w.lines)

eol(w) ==
    LET rp == realPosition(w, w.cx, w.cy)
    IN ~rp.err /\ rp.y < Len(w.lines) /\ rp.x = Len(w.lines[rp.y + 1])

eov(w) == w.cx + 1 = w.x1 - w.x0 - 1

firstLine(w) == w.cy + w.oy = 0

lastLine(w) ==
    LET rp == realPosition(w, w.cx, w.cy)
    IN ~rp.err /\ rp.y + 1 = Len(w.lines)

firstBufferLine(w) == w.cy = 0

lastBufferLine(w) == w.cy + 1 = w.y1 - w.y0 - 1

lastValidateLineInView(w) == w.cy = Len(w.viewLines)

goToEndOfLine(w, lineLength) ==
    LET maxX == Size(w).x
    IN IF lineLength - w.ox < maxX
       THEN LET nox == IF lineLength < w.ox THEN lineLength ELSE w.ox
            IN [w EXCEPT !.ox = nox, !.cx = lineLength - nox]
       ELSE [w EXCEPT !.ox = lineLength - maxX + 1, !.cx = maxX]

adjustPositionToCurrentString(w) ==
    LET vx == w.ox + w.cx
        vy == w.oy + w.cy
    IN IF w.abort \/ vx < 0 \/ vy < 0 \/ Len(w.viewLines) = 0 THEN w
       ELSE IF vy < Len(w.viewLines) /\ vx > Len(w.viewLines[vy + 1].line)
            THEN goToEndOfLine(w, Len(w.viewLines[vy + 1].line))
            ELSE w

(***************************************************************************)
(* The four movement primitives and MoveCursor.                            *)
(***************************************************************************)
\* A faulty step that does not stop at the end of the buffer.
moveOneRuneForwardPastEnd(w, writeMode) ==
    IF w.abort \/ isEmpty(w) THEN w
    ELSE IF eolPanics(w) THEN [w EXCEPT !.abort = TRUE]
    ELSE IF eol(w) /\ writeMode THEN [w EXCEPT !.cx = w.cx + 1]
    ELSE IF (eol(w) /\ ~writeMode) \/ (eov(w) /\ w.Wrap)
         THEN [w EXCEPT !.cx = 0, !.cy = w.cy + 1]
    ELSE [w EXCEPT !.cx = w.cx + 1]

moveOneRuneForward(w, writeMode) ==
    IF w.abort THEN w
    ELSE IF isEmpty(w) \/ (lastLine(w) /\ eol(w)) THEN w
    ELSE IF eolPanics(w) THEN [w EXCEPT !.abort = TRUE]
    ELSE IF eol(w) /\ writeMode THEN [w EXCEPT !.cx = w.cx + 1]
    ELSE IF (eol(w) /\ ~writeMode) \/ (eov(w) /\ w.Wrap)
         THEN LET w1 == IF lastBufferLine(w)
                        THEN SetOrigin(w, 0, w.oy + 1)
                        ELSE SetOrigin(w, 0, w.oy)
              IN [w1 EXCEPT
                    !.cx = IF eov(w1) /\ w1.Wrap THEN 1 ELSE 0,
                    !.cy = w1.cy + 1]
    ELSE IF eov(w) /\ ~w.Wrap THEN [w EXCEPT !.ox = w.ox + 1]
    ELSE [w EXCEPT !.cx = w.cx + 1]

moveOneRuneBackward(w) ==
    IF w.abort THEN w
    ELSE IF firstLine(w) /\ bol(w) THEN w
    ELSE IF bol(w)
         THEN LET w1 == IF firstBufferLine(w)
                        THEN [w EXCEPT !.oy = w.oy - 1] ELSE w
                  w2 == IF w1.cy # 0 THEN [w1 EXCEPT !.cy = w1.cy - 1] ELSE w1
                  i == w2.oy + w2.cy
              IN IF i < 0 \/ i >= Len(w2.viewLines)
                 THEN [w2 EXCEPT !.abort = TRUE]   \* v.viewLines[v.oy+v.cy]
                 ELSE IF w2.Wrap
                      THEN [w2 EXCEPT !.cx = Len(w2.viewLines[i + 1].line)]
                      ELSE goToEndOfLine(w2, Len(w2.viewLines[i + 1].line))
    ELSE IF bob(w) THEN [w EXCEPT !.ox = w.ox - 1]
    ELSE [w EXCEPT !.cx = w.cx - 1]

moveOneLineUpper(w) ==
    IF w.abort \/ firstLine(w) THEN w
    ELSE IF firstBufferLine(w) THEN [w EXCEPT !.oy = w.oy - 1]
    ELSE [w EXCEPT !.cy = w.cy - 1]

moveOneLineLower(w, writeMode) ==
    IF w.abort THEN w
    ELSE IF isEmpty(w) \/ lastLine(w)
            \/ (lastValidateLineInView(w) /\ ~writeMode) THEN w
    ELSE IF lastValidateLineInView(w) /\ writeMode
         THEN [w EXCEPT !.oy = w.oy + 1]
    ELSE IF lastBufferLine(w) THEN [w EXCEPT !.oy = w.oy + 1]
    ELSE [w EXCEPT !.cy = w.cy + 1]

RECURSIVE LinesUpper(_, _)
LinesUpper(w, n) ==
    IF n <= 0 THEN w ELSE LinesUpper(moveOneLineUpper(w), n - 1)

RECURSIVE LinesLower(_, _, _)
LinesLower(w, n, writeMode) ==
    IF n <= 0 THEN w
    ELSE LinesLower(moveOneLineLower(w, writeMode), n - 1, writeMode)

RECURSIVE RunesBackward(_, _)
RunesBackward(w, n) ==
    IF n <= 0 THEN w
    ELSE RunesBackward(adjustPositionToCurrentString(moveOneRuneBackward(w)),
                       n - 1)

RECURSIVE RunesForward(_, _, _)
RunesForward(w, n, writeMode) ==
    IF n <= 0 THEN w
    ELSE RunesForward(moveOneRuneForward(w, writeMode), n - 1, writeMode)

MoveCursor(w, dx, dy, writeMode) ==
    LET w1 == IF dy < 0 THEN LinesUpper(w, -dy)
              ELSE LinesLower(w, dy, writeMode)
        w2 == IF ~writeMode THEN adjustPositionToCurrentString(w1) ELSE w1
    IN IF dx < 0 THEN RunesBackward(w2, -dx)
       ELSE RunesForward(w2, dx, writeMode)

(***************************************************************************)
(* The editor operations.                                                  *)
(***************************************************************************)
\* A faulty EditWrite that leaves the cursor where it is.
EditWriteInPlace(w, ch) == writeRune(w, w.cx, w.cy, ch)

EditWrite(w, ch) == MoveCursor(writeRune(w, w.cx, w.cy, ch), 1, 0, TRUE)

\* A faulty EditNewLine that moves the cursor down wherever it was.
EditNewLineAlwaysDown(w) ==
    LET w1 == breakLine(w, w.cx, w.cy)
    IN IF w1.abort THEN w1
       ELSE MoveCursor([w1 EXCEPT !.ox = 0, !.cx = 0], 0, 1, TRUE)

EditNewLine(w) ==
    LET w1 == breakLine(w, w.cx, w.cy)
        y == w1.oy + w1.cy
    IN IF w1.abort THEN w1
       ELSE IF y >= Len(w1.viewLines)
               \/ (y >= 0 /\ y < Len(w1.viewLines)
                   /\ ~(w1.Wrap /\ w1.cx = 0
                        /\ w1.viewLines[y + 1].linesX > 0))
            THEN MoveCursor([w1 EXCEPT !.ox = 0, !.cx = 0], 0, 1, TRUE)
            ELSE w1

\* The width below which EditDelete steps back after merging two Lines:
\* the view's width when wrapping, maxInt otherwise.
MergeStepsBack(w, prevLen) == IF w.Wrap THEN prevLen < Size(w).x ELSE TRUE

EditDelete(w, back) ==
    LET x == w.ox + w.cx
        y == w.oy + w.cy
    IN IF w.abort \/ y < 0 THEN w
       ELSE IF y >= Len(w.viewLines) THEN MoveCursor(w, -1, 0, TRUE)
       ELSE IF back
            THEN IF x = 0
                 THEN IF y < 1 THEN w
                      ELSE IF w.viewLines[y + 1].linesX = 0
                           THEN LET w1 == mergeLines(w, w.cy - 1)
                                IN IF MergeStepsBack(w1,
                                                     Len(w1.viewLines[y].line))
                                   THEN MoveCursor(w1, -1, 0, TRUE)
                                   ELSE w1
                           ELSE MoveCursor(
                                    deleteRune(w,
                                               Len(w.viewLines[y].line) - 1,
                                               w.cy - 1),
                                    -1, 0, TRUE)
                 ELSE MoveCursor(deleteRune(w, w.cx - 1, w.cy), -1, 0, TRUE)
            ELSE IF x = Len(w.viewLines[y + 1].line)
                 THEN mergeLines(w, w.cy)
                 ELSE deleteRune(w, w.cx, w.cy)

(***************************************************************************)
(* Gui.draw: the render-time clamp of the cursor, then View.draw.  It ends *)
(* every iteration of Gui.MainLoop (flush).                                *)
(***************************************************************************)
ClampCursor(w) ==
    LET m == Size(w)
    IN [w EXCEPT
          !.cx = IF w.cx < 0 THEN 0
                 ELSE IF w.cx >= m.x THEN m.x - 1 ELSE w.cx,
          !.cy = IF w.cy < 0 THEN 0
                 ELSE IF w.cy >= m.y THEN m.y - 1 ELSE w.cy]

flush(w, gui) ==
    IF w.abort THEN w
    ELSE draw(IF gui.Cursor THEN ClampCursor(w) ELSE w)

(***************************************************************************)
(* AbsMoveCursor(x, y, writeMode) places the cursor on the buffer          *)
(* coordinate (x, y).  Its body is not part of the sources at hand; it is  *)
(* modelled from its use by the Commands: the cursor lands on the view     *)
(* position of (x, y) in the regenerated view lines, clamped to the        *)
(* buffer, the origin scrolled just enough to show it.                     *)
(***************************************************************************)
\* The index (0-based) of the first view line of Line y that holds column x.
RECURSIVE ViewLineOf(_, _, _, _)
ViewLineOf(vls, x, y, i) ==
    IF i >= Len(vls) THEN Len(vls) - 1
    ELSE IF vls[i + 1].linesY = y
            /\ x <= vls[i + 1].linesX + Len(vls[i + 1].line)
         THEN i
         ELSE ViewLineOf(vls, x, y, i + 1)

AbsMoveCursor(w, x, y, writeMode) ==
    IF w.abort \/ drawFails(w) \/ drawPanics(w) THEN w
    ELSE IF Len(w.lines) = 0
         THEN [w EXCEPT !.ox = 0, !.oy = 0, !.cx = 0, !.cy = 0]
    ELSE LET vls == Regenerate(w.lines, 0, w.Wrap, WrapWidth(w))
             ry == IF y < 0 THEN 0
                   ELSE IF y >= Len(w.lines) THEN Len(w.lines) - 1 ELSE y
             rx == IF x < 0 THEN 0
                   ELSE IF x > Len(w.lines[ry + 1])
                        THEN Len(w.lines[ry + 1]) ELSE x
             i == ViewLineOf(vls, rx, ry, 0)
             col == rx - vls[i + 1].linesX
             m == Size(w)
             nox == IF col < m.x THEN 0 ELSE col - m.x + 1
             noy == IF i < m.y THEN 0 ELSE i - m.y + 1
         IN [w EXCEPT !.ox = nox, !.cx = col - nox,
                      !.oy = noy, !.cy = i - noy]

(***************************************************************************)
(* The Commands.  A Command is a record of its kind and of the fields of   *)
(* the Go struct of that kind: x, y (px, py for BackDelLineCmd), the       *)
(* repeat count n and the runes p.                                         *)
(***************************************************************************)
Cmd(kind, x, y, n, p) == [kind |-> kind, x |-> x, y |-> y, n |-> n, p |-> p]

NoCmd == Cmd("none", 0, 0, 0, <<>>)

NewWriteCmd(x, y, fchar) == Cmd("Write", x, y, 0, <<fchar>>)
NewSpaceCmd(x, y) == Cmd("Space", x, y, 1, <<>>)
NewNewLineCmd(x, y) == Cmd("NewLine", x, y, 1, <<>>)
NewFwdDeleteCmd(x, y, fchar) == Cmd("FwdDelete", x, y, 0, <<fchar>>)
NewBackDeleteCmd(x, y, fchar) == Cmd("BackDelete", x, y, 0, <<fchar>>)
NewFwdDelLineCmd(x, y) == Cmd("FwdDelLine", x, y, 1, <<>>)
NewBackDelLineCmd(px, py) == Cmd("BackDelLine", px, py, 1, <<>>)
NewUpPermutCmd(x, y, n) == Cmd("UpPermut", x, y, n, <<>>)
NewDownPermutCmd(x, y, n) == Cmd("DownPermut", x, y, n, <<>>)
NewPermutCmd(x, y, n) == Cmd("Permut", x, y, n, <<>>)

\* A faulty merge that forgets the Command merged in.
mergeNothing(c, o) == c

\* c.merge(o), for two Commands of the same kind.
merge(c, o) ==
    CASE c.kind = "Write" -> [c EXCEPT !.p = c.p \o o.p]
      [] c.kind = "FwdDelete" -> [c EXCEPT !.p = c.p \o o.p]
      [] c.kind = "BackDelete" -> [c EXCEPT !.p = o.p \o c.p]
      [] c.kind = "BackDelLine" ->
            [c EXCEPT !.y = o.y, !.x = o.x, !.n = c.n + 1]
      [] c.kind \in {"UpPermut", "DownPermut", "Permut"} ->
            [c EXCEPT !.n = c.n + o.n]
      [] OTHER -> [c EXCEPT !.n = c.n + 1]   \* Space, NewLine, FwdDelLine

\* for i := len(p) - 1; i >= 0; i-- { absWriteRune(x, y, p[i]) }
RECURSIVE WriteRunesDown(_, _, _, _, _)
WriteRunesDown(w, x, y, p, i) ==
    IF i < 0 THEN w
    ELSE WriteRunesDown(absWriteRune(w, x, y, p[i + 1]), x, y, p, i - 1)

\* for i, ch := range p { absWriteRune(x0 + i, y, ch) }
RECURSIVE WriteRunesUp(_, _, _, _, _)
WriteRunesUp(w, x0, y, p, i) ==
    IF i >= Len(p) THEN w
    ELSE WriteRunesUp(absWriteRune(w, x0 + i, y, p[i + 1]), x0, y, p, i + 1)

\* n times absWriteRune(x, y, ' ')
RECURSIVE WriteSpaces(_, _, _, _)
WriteSpaces(w, x, y, n) ==
    IF n <= 0 THEN w ELSE WriteSpaces(absWriteRune(w, x, y, SPACE), x, y, n - 1)

\* n times absDeleteRune(x, y)
RECURSIVE DeleteRunes(_, _, _, _)
DeleteRunes(w, x, y, n) ==
    IF n <= 0 THEN w ELSE DeleteRunes(absDeleteRune(w, x, y), x, y, n - 1)

\* for i := 0; i < n; i++ { absDeleteRune(x - i - 1, y) }
RECURSIVE DeleteRunesBack(_, _, _, _, _)
DeleteRunesBack(w, x, y, i, n) ==
    IF i >= n THEN w
    ELSE DeleteRunesBack(absDeleteRune(w, x - i - 1, y), x, y, i + 1, n)

\* n times absBreakLine(x, y)
RECURSIVE RepeatBreakLines(_, _, _, _)
RepeatBreakLines(w, x, y, n) ==
    IF n <= 0 THEN w ELSE RepeatBreakLines(absBreakLine(w, x, y), x, y, n - 1)

\* for i := 1; i < n; i++ { absBreakLine(0, py + i) }
RECURSIVE BreakLinesBelow(_, _, _, _)
BreakLinesBelow(w, py, i, n) ==
    IF i >= n THEN w
    ELSE BreakLinesBelow(absBreakLine(w, 0, py + i), py, i + 1, n)

\* n times absMergeLines(y)
RECURSIVE RepeatMergeLines(_, _, _)
RepeatMergeLines(w, y, n) ==
    IF n <= 0 THEN w ELSE RepeatMergeLines(absMergeLines(w, y), y, n - 1)

\* for i := from; i > to; i-- { permutLines(i, i-1) }
RECURSIVE PermutUp(_, _, _)
PermutUp(w, i, to) ==
    IF i <= to THEN w ELSE PermutUp(permutLines(w, i, i - 1), i - 1, to)

\* for i := from; i < to; i++ { permutLines(i, i+1) }
RECURSIVE PermutDown(_, _, _)
PermutDown(w, i, to) ==
    IF i >= to THEN w ELSE PermutDown(permutLines(w, i, i + 1), i + 1, to)

\* PermutCmd: one permutLines of Line y and Line y + n, then the cursor is
\* walked from the top of the view.
PermutExecute(w, c) ==
    IF w.abort THEN w
    ELSE MoveCursor(SetCursor(SetOrigin(permutLines(w, c.y, c.y + c.n), 0, 0),
                              0, 0),
                    c.x, c.y + c.n, FALSE)

PermutReverse(w, c) ==
    IF w.abort THEN w
    ELSE MoveCursor(SetCursor(SetOrigin(permutLines(w, c.y, c.y + c.n), 0, 0),
                              0, 0),
                    c.x, c.y, FALSE)

\* c.Execute()
Execute(w, c) ==
    CASE c.kind = "Write" ->
            AbsMoveCursor(WriteRunesDown(w, c.x, c.y, c.p, Len(c.p) - 1),
                          c.x + Len(c.p), c.y, FALSE)
      [] c.kind = "Space" ->
            AbsMoveCursor(WriteSpaces(w, c.x, c.y, c.n),
                          c.x + c.n + 1, c.y, FALSE)
      [] c.kind = "NewLine" ->
            AbsMoveCursor(RepeatBreakLines(w, c.x, c.y, c.n),
                          c.x + c.n, c.y, FALSE)
      [] c.kind = "FwdDelete" ->
            AbsMoveCursor(DeleteRunes(w, c.x, c.y, Len(c.p)),
                          c.x - Len(c.p) + 1, c.y, FALSE)
      [] c.kind = "BackDelete" ->
            AbsMoveCursor(DeleteRunesBack(w, c.x, c.y, 0, Len(c.p)),
                          c.x - Len(c.p), c.y, FALSE)
      [] c.kind = "FwdDelLine" ->
            AbsMoveCursor(RepeatMergeLines(w, c.y, c.n), c.x, c.y, FALSE)
      [] c.kind = "BackDelLine" ->
            AbsMoveCursor(RepeatMergeLines(w, c.y, c.n), c.x, c.y, FALSE)
      [] c.kind = "UpPermut" ->
            AbsMoveCursor(PermutUp(w, c.y, c.y + c.n), c.x, c.y + c.n, FALSE)
      [] c.kind = "DownPermut" ->
            AbsMoveCursor(PermutDown(w, c.y, c.y + c.n), c.x, c.y + c.n, FALSE)
      [] c.kind = "Permut" -> PermutExecute(w, c)
      [] OTHER -> w

\* c.Reverse()
Reverse(w, c) ==
    CASE c.kind = "Write" ->
            AbsMoveCursor(DeleteRunes(w, c.x, c.y, Len(c.p)), c.x, c.y, FALSE)
      [] c.kind = "Space" ->
            AbsMoveCursor(DeleteRunes(w, c.x, c.y, c.n), c.x + 1, c.y, FALSE)
      [] c.kind = "NewLine" ->
            AbsMoveCursor(RepeatMergeLines(w, c.y, c.n), c.x, c.y, FALSE)
      [] c.kind = "FwdDelete" ->
            AbsMoveCursor(WriteRunesDown(w, c.x, c.y, c.p, Len(c.p) - 1),
                          c.x + Len(c.p), c.y, FALSE)
      [] c.kind = "BackDelete" ->
            AbsMoveCursor(WriteRunesUp(w, c.x - Len(c.p), c.y, c.p, 0),
                          c.x, c.y, FALSE)
      [] c.kind = "FwdDelLine" ->
            AbsMoveCursor(RepeatBreakLines(w, c.x, c.y, c.n), c.x, c.y, FALSE)
      [] c.kind = "BackDelLine" ->
            AbsMoveCursor(BreakLinesBelow(absBreakLine(w, c.x, c.y),
                                          c.y, 1, c.n),
                          0, c.y + c.n, FALSE)
      [] c.kind = "UpPermut" ->
            AbsMoveCursor(PermutDown(w, c.y + c.n, c.y), c.x, c.y, FALSE)
      [] c.kind = "DownPermut" ->
            AbsMoveCursor(PermutUp(w, c.y + c.n, c.y), c.x, c.y, FALSE)
      [] c.kind = "Permut" -> PermutReverse(w, c)
      [] OTHER -> w

(***************************************************************************)
(* Context: the undo and the redo stack and the merge flag.                *)
(***************************************************************************)
NewContext == [merge |-> FALSE, undoSt |-> <<>>, redoSt |-> <<>>]

\* CmdStack.Push
Push(s, c) == Append(s, c)

\* CmdStack.Pop: the stack it leaves; Top is the Command it returns.
Pop(s) == IF Len(s) < 1 THEN s ELSE SubSeq(s, 1, Len(s) - 1)

Top(s) == IF Len(s) < 1 THEN NoCmd ELSE s[Len(s)]

\* A faulty Cut that leaves the merge flag alone.
CutNothing(c) == c

Cut(c) == [c EXCEPT !.merge = FALSE]

\* A faulty test of the merge path that does not compare the kinds.
MergesAnyKind(c, cmd) == c.merge /\ Len(c.undoSt) > 0

\* Exec takes the merge path: every Command kind is Mergeable.
Merges(c, cmd) ==
    c.merge /\ Len(c.undoSt) > 0 /\ Top(c.undoSt).kind = cmd.kind

\* A faulty Exec that keeps the redo stack when it pushes.
ExecKeepsRedo(c, cmd) ==
    IF Merges(c, cmd)
    THEN [c EXCEPT !.undoSt[Len(c.undoSt)] = merge(Top(c.undoSt), cmd)]
    ELSE [c EXCEPT !.merge = TRUE, !.undoSt = Push(c.undoSt, cmd)]

Exec(c, cmd) ==
    IF Merges(c, cmd)
    THEN [c EXCEPT !.undoSt[Len(c.undoSt)] = merge(Top(c.undoSt), cmd)]
    ELSE [c EXCEPT !.merge = TRUE,
                   !.undoSt = Push(c.undoSt, cmd),
                   !.redoSt = <<>>]

\* A faulty Undo that leaves the merge flag as it was.
UndoKeepsMerge(c) ==
    IF Len(c.undoSt) < 1 THEN c
    ELSE [c EXCEPT !.undoSt = Pop(c.undoSt),
                   !.redoSt = Push(c.redoSt, Top(c.undoSt))]

\* A faulty Undo that drops the entry it pops.
UndoDropsEntry(c) ==
    IF Len(c.undoSt) < 1 THEN c
    ELSE [c EXCEPT !.undoSt = Pop(c.undoSt), !.merge = FALSE]

\* A faulty Undo that does not test what Pop returned.
UndoUnchecked(c) ==
    [c EXCEPT !.undoSt = Pop(c.undoSt),
              !.redoSt = Push(c.redoSt, Top(c.undoSt)),
              !.merge = FALSE]

\* Context.Undo, on the log and on the view.
Undo(c) ==
    IF Len(c.undoSt) < 1 THEN c
    ELSE [c EXCEPT !.undoSt = Pop(c.undoSt),
                   !.redoSt = Push(c.redoSt, Top(c.undoSt)),
                   !.merge = FALSE]

UndoView(w, c) ==
    IF Len(c.undoSt) < 1 THEN w ELSE Reverse(w, Top(c.undoSt))

\* A faulty Redo that leaves the entry on the redo stack.
RedoKeepsEntry(c) ==
    IF Len(c.redoSt) < 1 THEN c
    ELSE [c EXCEPT !.undoSt = Push(c.undoSt, Top(c.redoSt)),
                   !.merge = FALSE]

\* Context.Redo, on the log and on the view.
Redo(c) ==
    IF Len(c.redoSt) < 1 THEN c
    ELSE [c EXCEPT !.redoSt = Pop(c.redoSt),
                   !.undoSt = Push(c.undoSt, Top(c.redoSt)),
                   !.merge = FALSE]

RedoView(w, c) ==
    IF Len(c.redoSt) < 1 THEN w ELSE Execute(w, Top(c.redoSt))

(***************************************************************************)
(* The key handlers.  The editor operations of edit.go change the buffer   *)
(* and move the cursor; the host's key binding then hands Context.Exec the *)
(* Command of the edit, built on the buffer coordinates of the cursor      *)
(* before the edit (the comment heading the Commands) and, for a delete,   *)
(* on the rune or the Line join the edit removed.  A key that changes      *)
(* nothing records nothing.                                                *)
(***************************************************************************)
\* The cursor's buffer coordinates.
CursorPosition(w) == realPosition(w, w.cx, w.cy)

WriteCommand(w, ch) ==
    LET rp == CursorPosition(w)
    IN IF rp.err THEN NoCmd
       ELSE IF ch = SPACE THEN NewSpaceCmd(rp.x, rp.y)
       ELSE NewWriteCmd(rp.x, rp.y, ch)

NewLineCommand(w) ==
    LET rp == CursorPosition(w)
    IN IF rp.err \/ absBreakLineFails(w, rp.x, rp.y) THEN NoCmd
       ELSE NewNewLineCmd(rp.x, rp.y)

\* The Command of removing the rune at the view point (vx, vy): a backward
\* delete has the cursor one column to the right of the rune.
RuneCommand(w, vx, vy, back) ==
    LET rp == realPosition(w, vx, vy)
    IN IF deleteRuneFails(w, vx, vy) THEN NoCmd
       ELSE IF back
            THEN NewBackDeleteCmd(rp.x + 1, rp.y, w.lines[rp.y + 1][rp.x + 1])
            ELSE NewFwdDeleteCmd(rp.x, rp.y, w.lines[rp.y + 1][rp.x + 1])

\* The Command of joining the Line under the view row vy with the next.
LineCommand(w, vy, back) ==
    LET rp == realPosition(w, 0, vy)
        cur == CursorPosition(w)
    IN IF mergeLinesFails(w, vy) THEN NoCmd
       ELSE IF back
            THEN NewBackDelLineCmd(Len(w.lines[rp.y + 1]), rp.y)
            ELSE NewFwdDelLineCmd(cur.x, cur.y)

\* The Command of EditDelete(back), following its branches.
DeleteCommand(w, back) ==
    LET x == w.ox + w.cx
        y == w.oy + w.cy
    IN IF y < 0 \/ y >= Len(w.viewLines) THEN NoCmd
       ELSE IF back
            THEN IF x = 0
                 THEN IF y < 1 THEN NoCmd
                      ELSE IF w.viewLines[y + 1].linesX = 0
                           THEN LineCommand(w, w.cy - 1, TRUE)
                           ELSE RuneCommand(w, Len(w.viewLines[y].line) - 1,
                                            w.cy - 1, TRUE)
                 ELSE RuneCommand(w, w.cx - 1, w.cy, TRUE)
            ELSE IF x = Len(w.viewLines[y + 1].line)
                 THEN LineCommand(w, w.cy, FALSE)
                 ELSE RuneCommand(w, w.cx, w.cy, FALSE)

\* The log after a key whose edit is described by cmd.
Record(c, cmd) == IF cmd = NoCmd THEN c ELSE Exec(c, cmd)

(***************************************************************************)
(* The state machine: every step is one iteration of Gui.MainLoop, a       *)
(* handler followed by flush.                                              *)
(***************************************************************************)
\* The Gui of an editor: the cursor is shown (Gui.draw clamps it to the
\* viewport), mouse events are not enabled.  userEvents is the content of
\* the channel of that name, sending the handlers of the goroutines of
\* Gui.Execute that have not sent yet.
\* modes lists the Modes in the order of their creation, each with its name
\* and the number of its keybindings; currentMode is the name of the Mode
\* g.currentMode points to, "nil" for the nil pointer.
NewGui ==
    [Cursor |-> TRUE, Mouse |-> FALSE, userEvents |-> <<>>, sending |-> {},
     modes |-> <<>>, currentMode |-> "nil"]

\* SetCurrentMode(name): the first Mode of that name becomes current.
SetCurrentMode(gui, name) ==
    IF \E i \in 1..Len(gui.modes) : gui.modes[i].name = name
    THEN [gui EXCEPT !.currentMode = name]
    ELSE gui

\* Mode(name): the Gui the lookup leaves; it returns the Mode of that name,
\* or ErrUnknowMode when there is none.
Mode(gui, name) ==
    IF \E i \in 1..Len(gui.modes) : gui.modes[i].name = name
    THEN [gui EXCEPT !.currentMode = name]
    ELSE gui

\* AddMode(name, openFunc, closeFunc)
AddMode(gui, name) ==
    IF \E i \in 1..Len(gui.modes) : gui.modes[i].name = name
    THEN Mode(gui, name)
    ELSE [Mode(gui, name) EXCEPT
            !.modes = Append(@, [name |-> name, keybindings |-> 0])]

\* SetKeybinding(modeName, viewName, key, mod, h), key being a Key or a rune
SetKeybinding(gui, modeName) ==
    LET g1 == Mode(gui, modeName)
        i == CHOOSE i \in 1..Len(gui.modes) :
                 /\ gui.modes[i].name = modeName
                 /\ \A j \in 1..(i - 1) : gui.modes[j].name # modeName
    IN IF \E k \in 1..Len(gui.modes) : gui.modes[k].name = modeName
       THEN [g1 EXCEPT !.modes[i].keybindings = @ + 1]
       ELSE g1

\* The views the loop starts with: an empty wrapping view, a one-line view
\* that does not wrap, and a wrapping view whose second Line takes two view
\* lines.
InitViews ==
    { [lines |-> <<>>, Wrap |-> TRUE],
      [lines |-> << <<"a", "b">> >>, Wrap |-> FALSE],
      [lines |-> << <<"b">>, <<"a", "b", "a">> >>, Wrap |-> TRUE] }

NoMon(A) ==
    [steps |-> 0, A |-> A, B |-> A, cutPending |-> FALSE, preUndo |-> NewContext,
     phase |-> "none", n0 |-> 0, w1 |-> NoCmd, w2 |-> NoCmd, l2 |-> <<>>,
     dropped |-> 0, undoRedo |-> FALSE, ran |-> <<>>]

Init ==
    /\ \E x1 \in ViewX1, y1 \in ViewY1, i \in InitViews :
          v = flush([newView(0, 0, x1, y1) EXCEPT !.Wrap = i.Wrap,
                                                  !.lines = i.lines],
                    NewGui)
    /\ con = NewContext
    /\ g = NewGui
    /\ last = [op |-> "init", exec |-> FALSE, cmd |-> NoCmd]
    /\ mon = NoMon(v.lines)

\* The phase of the merge law after a step: "w" after a write that pushed a
\* new entry, "ww" after a second write, "wc" after a Cut, "wcw" after the
\* write that follows the Cut, and a "u" for each Undo that follows.
NextPhase(op, cmd) ==
    IF op = "write" /\ cmd.kind = "Write"
    THEN CASE mon.phase = "w" -> "ww"
           [] mon.phase = "wc" -> "wcw"
           [] OTHER -> IF Merges(con, cmd) THEN "none" ELSE "w"
    ELSE IF op = "cut" /\ mon.phase = "w" THEN "wc"
    ELSE IF op = "undo" /\ mon.phase \in {"ww", "wcw", "wcwu"}
         THEN CASE mon.phase = "ww" -> "wwu"
                [] mon.phase = "wcw" -> "wcwu"
                [] OTHER -> "wcwuu"
    ELSE "none"

\* The history after a step, v' being the view the step leaves.
NextMon(op, cmd) ==
    LET ph == NextPhase(op, cmd)
    IN [steps |-> mon.steps + 1,
        A |-> mon.A,
        B |-> IF cmd # NoCmd /\ op \notin {"undo", "redo"}
              THEN v'.lines ELSE mon.B,
        cutPending |-> IF op \in {"cut", "arrow"} THEN TRUE
                       ELSE IF cmd # NoCmd /\ op \notin {"undo", "redo"}
                            THEN FALSE ELSE mon.cutPending,
        preUndo |-> IF op = "undo" THEN con
                    ELSE IF op = "redo" /\ last.op = "undo" THEN mon.preUndo
                    ELSE NewContext,
        phase |-> ph,
        n0 |-> IF ph = "none" THEN 0
               ELSE IF ph = "w" THEN Len(con.undoSt) ELSE mon.n0,
        w1 |-> IF ph = "none" THEN NoCmd
               ELSE IF ph = "w" THEN cmd ELSE mon.w1,
        w2 |-> IF ph \in {"none", "w", "wc"} THEN NoCmd
               ELSE IF ph \in {"ww", "wcw"} THEN cmd ELSE mon.w2,
        l2 |-> IF ph \in {"none", "w", "wc"} THEN <<>>
               ELSE IF ph \in {"ww", "wcw"} THEN v'.lines ELSE mon.l2,
        dropped |-> IF cmd # NoCmd /\ op \notin {"undo", "redo"}
                    THEN Len(con.redoSt) ELSE 0,
        undoRedo |-> op = "redo" /\ last.op = "undo" /\ last.cmd # NoCmd,
        ran |-> mon.ran]

\* One iteration of the main loop: the handler leaves the view w1 and the
\* log c1, cmd is the Command the step handed to Exec or moved between the
\* stacks, exec tells whether Exec was called.
Step(op, w1, c1, cmd, exec) ==
    /\ ~v.abort
    /\ mon.steps < MaxSteps
    /\ v' = flush(w1, g)
    /\ con' = c1
    /\ g' = g
    /\ last' = [op |-> op, exec |-> exec, cmd |-> cmd]
    /\ mon' = NextMon(op, cmd)

KeyWrite ==
    \E ch \in Runes \cup {SPACE} :
        LET cmd == WriteCommand(v, ch)
        IN Step("write", EditWrite(v, ch), Record(con, cmd), cmd, cmd # NoCmd)

KeyEnter ==
    LET cmd == NewLineCommand(v)
    IN Step("newline", EditNewLine(v), Record(con, cmd), cmd, cmd # NoCmd)

KeyDelete ==
    \E back \in BOOLEAN :
        LET cmd == DeleteCommand(v, back)
        IN Step("delete", EditDelete(v, back), Record(con, cmd), cmd,
                cmd # NoCmd)

KeyInsert ==
    Step("insert", [v EXCEPT !.Overwrite = ~v.Overwrite], con, NoCmd, FALSE)

KeyArrow ==
    \E d \in {<<1, 0>>, <<-1, 0>>, <<0, 1>>, <<0, -1>>} :
        Step("arrow", MoveCursor(v, d[1], d[2], FALSE), Cut(con), NoCmd, FALSE)

CutLog == Step("cut", v, Cut(con), NoCmd, FALSE)

KeyUndo == Step("undo", UndoView(v, con), Undo(con), Top(con.undoSt), FALSE)

KeyRedo == Step("redo", RedoView(v, con), Redo(con), Top(con.redoSt), FALSE)

Next ==
    \/ KeyWrite
    \/ KeyEnter
    \/ KeyDelete
    \/ KeyInsert
    \/ KeyArrow
    \/ CutLog
    \/ KeyUndo
    \/ KeyRedo

Spec == Init /\ [][Next]_vars

(***************************************************************************)
(* The same main loop on the views of every size Gui.SetView accepts from  *)
(* the layout: x0 < x1 and y0 < y1, so a view of no column (x1 = x0 + 1)   *)
(* or of no row (y1 = y0 + 1) is one of them.                              *)
(***************************************************************************)
SizedInit ==
    /\ \E x1 \in {1, 4}, y1 \in {1, 4}, i \in InitViews :
          v = flush([newView(0, 0, x1, y1) EXCEPT !.Wrap = i.Wrap,
                                                  !.lines = i.lines],
                    NewGui)
    /\ con = NewContext
    /\ g = NewGui
    /\ last = [op |-> "init", exec |-> FALSE, cmd |-> NoCmd]
    /\ mon = NoMon(v.lines)

SizedSpec == SizedInit /\ [][Next]_vars

(***************************************************************************)
(* The line moves.  No handler of the sources at hand builds the line-move *)
(* Commands; the key is modelled from their fields: it moves the Line      *)
(* under the cursor one Line up or down by executing the Command of        *)
(* displacement -1 or 1 built on the cursor's buffer coordinates, and      *)
(* hands the Command to Exec, where consecutive moves merge.               *)
(***************************************************************************)
PermutInit ==
    /\ v = flush([newView(0, 0, 4, 6) EXCEPT
                    !.lines = << <<"a">>, <<"b">>, <<"c">>, <<"d">> >>],
                 NewGui)
    /\ con = NewContext
    /\ g = NewGui
    /\ last = [op |-> "init", exec |-> FALSE, cmd |-> NoCmd]
    /\ mon = NoMon(v.lines)

KeyMoveLine ==
    \E cmd \in { NewUpPermutCmd(CursorPosition(v).x, CursorPosition(v).y, -1),
                  NewDownPermutCmd(CursorPosition(v).x, CursorPosition(v).y, 1),
                  NewPermutCmd(CursorPosition(v).x, CursorPosition(v).y, -1),
                  NewPermutCmd(CursorPosition(v).x, CursorPosition(v).y, 1) } :
        /\ ~CursorPosition(v).err
        /\ cmd.y < Len(v.lines)
        /\ cmd.y + cmd.n \in 0..(Len(v.lines) - 1)
        /\ Step("moveline", Execute(v, cmd), Exec(con, cmd), cmd, TRUE)

PermutNext == KeyMoveLine \/ KeyArrow \/ KeyUndo \/ KeyRedo

PermutSpec == PermutInit /\ [][PermutNext]_vars

(***************************************************************************)
(* View.draw and View.realPosition on their own: a view of any of the      *)
(* widths DrawX1 is loaded with a buffer, drawn, and its cursor is set.    *)
(***************************************************************************)
Letters == <<"a", "b", "c", "d", "e">>

\* A Line of n runes, no two of them alike.
LineOf(n) == [i \in 1..n |-> Letters[((i - 1) % Len(Letters)) + 1]]

\* The buffers of at most MaxLines Lines of at most MaxLineLen runes.
DrawBuffers ==
    UNION { [1..n -> {LineOf(k) : k \in 0..MaxLineLen}] : n \in 0..MaxLines }

DrawInit ==
    /\ \E x1 \in DrawX1, y1 \in ViewY1, wrap \in BOOLEAN, b \in DrawBuffers :
          v = [newView(0, 0, x1, y1) EXCEPT !.Wrap = wrap, !.lines = b]
    /\ con = NewContext
    /\ g = NewGui
    /\ last = [op |-> "init", exec |-> FALSE, cmd |-> NoCmd]
    /\ mon = NoMon(v.lines)

\* Gui.flush draws the view: for the first time, or again ("redraw") after
\* the view was tainted.
Redraw ==
    /\ ~v.abort
    /\ last.op \in {"init", "taint"}
    /\ v' = draw(v)
    /\ last' = [last EXCEPT !.op = IF last.op = "init" THEN "draw"
                                   ELSE "redraw"]
    /\ UNCHANGED <<con, g, mon>>

\* A write at an invalid point: absWriteRune taints the view and returns
\* its error, the buffer is as it was.
Retaint ==
    /\ ~v.abort
    /\ last.op \in {"draw", "cursor"}
    /\ v' = absWriteRune(v, -1, 0, "a")
    /\ last' = [last EXCEPT !.op = "taint"]
    /\ UNCHANGED <<con, g, mon>>

\* A handler sets the cursor of the drawn view.
PlaceCursor ==
    /\ ~v.abort
    /\ last.op = "draw"
    /\ \E x \in 0..Size(v).x, y \in 0..Size(v).y :
          /\ ~SetCursorFails(v, x, y)
          /\ v' = SetCursor(v, x, y)
    /\ last' = [last EXCEPT !.op = "cursor"]
    /\ UNCHANGED <<con, g, mon>>

\* A handler scrolls the drawn view.
PlaceOrigin ==
    /\ ~v.abort
    /\ last.op = "draw"
    /\ \E x \in 0..2, y \in 0..(MaxLines + 1) :
          /\ x + y > 0
          /\ v' = SetOrigin(v, x, y)
    /\ last' = [last EXCEPT !.op = "origin"]
    /\ UNCHANGED <<con, g, mon>>

DrawNext == Redraw \/ PlaceCursor \/ Retaint \/ PlaceOrigin

DrawSpec == DrawInit /\ [][DrawNext]_vars

(***************************************************************************)
(* View.MoveCursor on its own: a view is drawn, a handler sets its cursor  *)
(* or its origin and moves the cursor by one step in some direction.       *)
(***************************************************************************)
\* MoveCursor(dx, dy, writeMode): last.cmd holds dx as x, dy as y and
\* writeMode as n = 1.
Move ==
    /\ ~v.abort
    /\ last.op \in {"cursor", "origin"}
    /\ \E dx \in -1..1, dy \in -1..1, writeMode \in BOOLEAN :
          /\ v' = MoveCursor(v, dx, dy, writeMode)
          /\ last' = [last EXCEPT
                        !.op = "move",
                        !.cmd = Cmd("args", dx, dy,
                                    IF writeMode THEN 1 ELSE 0, <<>>)]
    /\ UNCHANGED <<con, g, mon>>

\* moveOneRuneForward(writeMode) alone: last.cmd holds writeMode as n = 1.
StepRight ==
    /\ ~v.abort
    /\ last.op \in {"cursor", "origin"}
    /\ \E writeMode \in BOOLEAN :
          /\ v' = moveOneRuneForward(v, writeMode)
          /\ last' = [last EXCEPT
                        !.op = "stepRight",
                        !.cmd = Cmd("args", 0, 0,
                                    IF writeMode THEN 1 ELSE 0, <<>>)]
    /\ UNCHANGED <<con, g, mon>>

\* moveOneRuneBackward() alone.
StepLeft ==
    /\ ~v.abort
    /\ last.op \in {"cursor", "origin"}
    /\ v' = moveOneRuneBackward(v)
    /\ last' = [last EXCEPT !.op = "stepLeft", !.cmd = NoCmd]
    /\ UNCHANGED <<con, g, mon>>

MoveNext ==
    Redraw \/ PlaceCursor \/ PlaceOrigin \/ Move \/ StepRight \/ StepLeft

MoveSpec == DrawInit /\ [][MoveNext]_vars

(***************************************************************************)
(* The main loop with its event pool: Gui.MainLoop handles one event,      *)
(* consumeevents handles every event that has queued up meanwhile, and     *)
(* only then does flush draw the view.  The handlers are those of          *)
(* simpleEditor, which records no Command.                                 *)
(***************************************************************************)
BatchX1 == {4, 7}

BatchInit ==
    /\ \E x1 \in BatchX1, y1 \in ViewY1 :
          v = flush([newView(0, 0, x1, y1) EXCEPT !.Wrap = TRUE], NewGui)
    /\ con = NewContext
    /\ g = NewGui
    /\ last = [op |-> "init", exec |-> FALSE, cmd |-> NoCmd]
    /\ mon = NoMon(v.lines)

\* handleEvent runs the editor on a rune key; the view is not drawn.
BatchKey ==
    /\ ~v.abort
    /\ mon.steps < MaxSteps
    /\ \E ch \in Runes : v' = EditWrite(v, ch)
    /\ last' = [last EXCEPT !.op = "key"]
    /\ mon' = [mon EXCEPT !.steps = @ + 1]
    /\ UNCHANGED <<con, g>>

\* The pool is empty: flush draws the view.
BatchFlush ==
    /\ ~v.abort
    /\ last.op = "key"
    /\ v' = flush(v, g)
    /\ last' = [last EXCEPT !.op = "flush"]
    /\ UNCHANGED <<con, g, mon>>

BatchNext == BatchKey \/ BatchFlush

BatchSpec == BatchInit /\ [][BatchNext]_vars

(***************************************************************************)
(* A typing session: the runes of Hello are typed one key at a time into   *)
(* an empty view, the view drawn after each key, and the cursor is then    *)
(* moved left key by key.  mon.steps counts the runes typed, mon.n0 the    *)
(* moves to the left.                                                      *)
(***************************************************************************)
MaxLefts == 6

Hello == <<"H", "e", "l", "l", "o", "!">>

HelloX1 == 3..8

HelloInit ==
    /\ \E x1 \in HelloX1, y1 \in ViewY1, wrap \in BOOLEAN :
          v = flush([newView(0, 0, x1, y1) EXCEPT !.Wrap = wrap], NewGui)
    /\ con = NewContext
    /\ g = NewGui
    /\ last = [op |-> "init", exec |-> FALSE, cmd |-> NoCmd]
    /\ mon = NoMon(v.lines)

\* The key of the next rune of Hello: EditWrite, then flush.
HelloWrite ==
    /\ ~v.abort
    /\ mon.steps < Len(Hello)
    /\ mon.n0 = 0
    /\ v' = flush(EditWrite(v, Hello[mon.steps + 1]), g)
    /\ last' = [last EXCEPT !.op = "write"]
    /\ mon' = [mon EXCEPT !.steps = @ + 1]
    /\ UNCHANGED <<con, g>>

\* The key of the left arrow, once Hello is typed: MoveCursor(-1, 0, false),
\* then flush.
HelloLeft ==
    /\ ~v.abort
    /\ mon.steps = Len(Hello)
    /\ mon.n0 < MaxLefts
    /\ v' = flush(MoveCursor(v, -1, 0, FALSE), g)
    /\ last' = [last EXCEPT !.op = "arrow"]
    /\ mon' = [mon EXCEPT !.n0 = @ + 1]
    /\ UNCHANGED <<con, g>>

HelloNext == HelloWrite \/ HelloLeft

HelloSpec == HelloInit /\ [][HelloNext]_vars

(***************************************************************************)
(* The buffer primitives on their own: a view is loaded with a buffer, in  *)
(* insert or in overwrite mode, and one primitive is called with absolute  *)
(* coordinates inside, at the edge of and outside the buffer.  The view    *)
(* was drawn before the call.  last.cmd holds the arguments of the call,   *)
(* mon.A the Lines before it.                                              *)
(***************************************************************************)
BufferInit ==
    /\ \E x1 \in ViewX1, y1 \in ViewY1, o \in BOOLEAN, b \in DrawBuffers :
          v = draw([newView(0, 0, x1, y1) EXCEPT !.lines = b,
                                                 !.Overwrite = o])
    /\ con = NewContext
    /\ g = NewGui
    /\ last = [op |-> "init", exec |-> FALSE, cmd |-> NoCmd]
    /\ mon = NoMon(v.lines)

\* v.absWriteRune(x, y, ch)
AbsWrite ==
    /\ last.op = "init"
    /\ \E x \in -1..(MaxLineLen + 1), y \in -1..(MaxLines + 1), ch \in Runes :
          /\ v' = absWriteRune(v, x, y, ch)
          /\ last' = [op |-> "absWriteRune", exec |-> FALSE,
                      cmd |-> Cmd("args", x, y, 0, <<ch>>)]
    /\ UNCHANGED <<con, g, mon>>

\* v.absDeleteRune(x, y)
AbsDelete ==
    /\ last.op = "init"
    /\ \E x \in -1..(MaxLineLen + 1), y \in -1..(MaxLines + 1) :
          /\ v' = absDeleteRune(v, x, y)
          /\ last' = [op |-> "absDeleteRune", exec |-> FALSE,
                      cmd |-> Cmd("args", x, y, 0, <<>>)]
    /\ UNCHANGED <<con, g, mon>>

\* v.absBreakLine(x, y)
AbsBreak ==
    /\ last.op = "init"
    /\ \E x \in -1..(MaxLineLen + 1), y \in -1..(MaxLines + 1) :
          /\ v' = absBreakLine(v, x, y)
          /\ last' = [op |-> "absBreakLine", exec |-> FALSE,
                      cmd |-> Cmd("args", x, y, 0, <<>>)]
    /\ UNCHANGED <<con, g, mon>>

\* v.absMergeLines(y)
AbsMerge ==
    /\ last.op = "init"
    /\ \E y \in -1..(MaxLines + 1) :
          /\ v' = absMergeLines(v, y)
          /\ last' = [op |-> "absMergeLines", exec |-> FALSE,
                      cmd |-> Cmd("args", 0, y, 0, <<>>)]
    /\ UNCHANGED <<con, g, mon>>

\* v.permutLines(y1, y2): last.cmd holds y1 as x and y2 as y.
Permut ==
    /\ last.op = "init"
    /\ \E y1 \in -1..(MaxLines + 1), y2 \in -1..(MaxLines + 1) :
          /\ v' = permutLines(v, y1, y2)
          /\ last' = [op |-> "permutLines", exec |-> FALSE,
                      cmd |-> Cmd("args", y1, y2, 0, <<>>)]
    /\ UNCHANGED <<con, g, mon>>

\* The streams of at most n runes out of a letter, the line feed and the
\* carriage return.
MaxStream == 3

Streams == UNION { [1..n -> {"a", "\n", "\r"}] : n \in 0..MaxStream }

\* v.Write(p): last.cmd holds the stream as p.
ViewWrite ==
    /\ last.op = "init"
    /\ \E p \in Streams :
          /\ v' = Write(v, p)
          /\ last' = [op |-> "Write", exec |-> FALSE,
                      cmd |-> Cmd("args", 0, 0, 0, p)]
    /\ UNCHANGED <<con, g, mon>>

BufferNext ==
    AbsWrite \/ AbsDelete \/ AbsBreak \/ AbsMerge \/ Permut \/ ViewWrite

BufferSpec == BufferInit /\ [][BufferNext]_vars

(***************************************************************************)
(* Gui.Execute: a producer goroutine hands the handlers 1, 2, ... to       *)
(* Execute one after the other, each call returning before the next.       *)
(* Execute starts a goroutine that sends the handler to the channel        *)
(* userEvents; the main loop receives from the channel and runs the        *)
(* handler.  mon.steps counts the calls of Execute, mon.ran lists the      *)
(* handlers in the order the loop ran them.                                *)
(***************************************************************************)
MaxHandlers == 4

\* make(chan userEvent, 20)
ChanCap == 20

\* The producer calls Execute(h): the goroutine is started, the call returns.
\* mon.n0 counts the calls made while the channel was full.
GuiExecute ==
    /\ mon.steps < MaxHandlers
    /\ g' = [g EXCEPT !.sending = @ \cup {mon.steps + 1}]
    /\ mon' = [mon EXCEPT
                 !.steps = @ + 1,
                 !.n0 = IF Len(g.userEvents) = ChanCap THEN @ + 1 ELSE @]
    /\ last' = [last EXCEPT !.op = "Execute"]
    /\ UNCHANGED <<v, con>>

\* A faulty goroutine that gives up when the channel is full.
SendOrDrop ==
    /\ \E h \in g.sending :
          g' = [g EXCEPT !.sending = @ \ {h},
                         !.userEvents = IF Len(@) < ChanCap
                                        THEN Append(@, h) ELSE @]
    /\ last' = [last EXCEPT !.op = "send"]
    /\ UNCHANGED <<v, con, mon>>

\* A goroutine of Execute runs: g.userEvents <- userEvent{h: h}.
Send ==
    /\ Len(g.userEvents) < ChanCap
    /\ \E h \in g.sending :
          g' = [g EXCEPT !.sending = @ \ {h},
                         !.userEvents = Append(@, h)]
    /\ last' = [last EXCEPT !.op = "send"]
    /\ UNCHANGED <<v, con, mon>>

\* MainLoop or consumeevents receives an event from userEvents and runs
\* its handler.
Receive ==
    /\ g.userEvents # <<>>
    /\ g' = [g EXCEPT !.userEvents = Tail(@)]
    /\ mon' = [mon EXCEPT !.ran = Append(@, Head(g.userEvents))]
    /\ last' = [last EXCEPT !.op = "handler"]
    /\ UNCHANGED <<v, con>>

ExecuteNext == GuiExecute \/ Send \/ Receive

ExecuteSpec == BatchInit /\ [][ExecuteNext]_vars

\* The loop is busy and the channel is full: ChanCap handlers submitted
\* earlier, numbered after the MaxHandlers to come, wait in userEvents.
\* The scheduler is fair to the goroutines of Execute and to the loop.
FullInit ==
    /\ v = flush([newView(0, 0, 4, 4) EXCEPT !.Wrap = TRUE], NewGui)
    /\ con = NewContext
    /\ g = [NewGui EXCEPT
              !.userEvents = [i \in 1..ChanCap |-> MaxHandlers + i]]
    /\ last = [op |-> "init", exec |-> FALSE, cmd |-> NoCmd]
    /\ mon = NoMon(v.lines)

FairExecuteSpec ==
    FullInit /\ [][ExecuteNext]_vars /\ WF_vars(Send) /\ WF_vars(Receive)

(***************************************************************************)
(* The Modes of the Gui: the host registers Modes and keybindings, looks   *)
(* Modes up and switches between them.  last.cmd.p holds the name of the   *)
(* call.                                                                   *)
(***************************************************************************)
MaxBindings == 2

CallAddMode ==
    /\ \E name \in {"edit", "cmd", "file"} :
          /\ g' = AddMode(g, name)
          /\ last' = [last EXCEPT !.op = "AddMode",
                                  !.cmd = Cmd("args", 0, 0, 0, <<name>>)]
    /\ UNCHANGED <<v, con, mon>>

CallSetKeybinding ==
    /\ \E name \in {"edit", "cmd", "file"} :
          /\ \A i \in 1..Len(g.modes) :
                g.modes[i].name = name => g.modes[i].keybindings < MaxBindings
          /\ g' = SetKeybinding(g, name)
          /\ last' = [last EXCEPT !.op = "SetKeybinding",
                                  !.cmd = Cmd("args", 0, 0, 0, <<name>>)]
    /\ UNCHANGED <<v, con, mon>>

CallMode ==
    /\ \E name \in {"edit", "cmd", "file"} :
          /\ g' = Mode(g, name)
          /\ last' = [last EXCEPT !.op = "Mode",
                                  !.cmd = Cmd("args", 0, 0, 0, <<name>>)]
    /\ UNCHANGED <<v, con, mon>>

CallSetCurrentMode ==
    /\ \E name \in {"edit", "cmd", "file"} :
          /\ g' = SetCurrentMode(g, name)
          /\ last' = [last EXCEPT !.op = "SetCurrentMode",
                                  !.cmd = Cmd("args", 0, 0, 0, <<name>>)]
    /\ UNCHANGED <<v, con, mon>>

ModeNext == CallAddMode \/ CallSetKeybinding \/ CallMode \/ CallSetCurrentMode

ModeSpec == BatchInit /\ [][ModeNext]_vars

(***************************************************************************)
(* The laws of the command log.  A law about one call is a property of     *)
(* every step [][A]_vars; a law about what the calls have left is an       *)
(* invariant over the history variables last and mon.                      *)
(***************************************************************************)
\* The Lines with the rune at column x of Line y (both 0-based) taken out.
RemoveAt(lines, x, y) ==
    [lines EXCEPT ![y + 1] = SubSeq(@, 1, x) \o SubSeq(@, x + 2, Len(@))]

\* C1: whatever edits the log recorded on the way from the Lines A to the
\* Lines B, the Lines are A again once Undo has emptied the undo stack, and
\* B again once Redo has emptied the redo stack.
UndoRedoInverse ==
    ~v.abort =>
        /\ (con.undoSt = <<>> => v.lines = mon.A)
        /\ (con.redoSt = <<>> => v.lines = mon.B)

\* C2: after a call of Exec, merging or pushing, the redo stack is empty and
\* the merge flag is set.
ExecClearsRedo == last.exec => (con.redoSt = <<>> /\ con.merge)

\* An Exec that found entries on the redo stack.
ExecAfterUndo ==
    last.exec /\ mon.dropped > 0 /\ con.redoSt = <<>> /\ con.merge

BothWritten ==
    /\ mon.l2[mon.w1.y + 1][mon.w1.x + 1] = mon.w1.p[1]
    /\ mon.l2[mon.w2.y + 1][mon.w2.x + 1] = mon.w2.p[1]

\* The Lines after the second write without its rune, and without both.
SecondRemoved == RemoveAt(mon.l2, mon.w2.x, mon.w2.y)

BothRemoved == RemoveAt(SecondRemoved, mon.w1.x, mon.w1.y)

\* C4: two writes in a row, the first opening an undo entry, leave one more
\* undo entry than before, and one Undo takes both runes out of the Lines;
\* with a Cut between the writes they leave two more entries, the first
\* Undo takes out the second rune only and the second Undo the first rune.
MergeLaw ==
    ~v.abort =>
        /\ mon.phase = "ww" =>
                Len(con.undoSt) = mon.n0 + 1 /\ BothWritten
        /\ mon.phase = "wwu" =>
                Len(con.undoSt) = mon.n0 /\ v.lines = BothRemoved
        /\ mon.phase = "wcw" =>
                Len(con.undoSt) = mon.n0 + 2 /\ BothWritten
        /\ mon.phase = "wcwu" =>
                Len(con.undoSt) = mon.n0 + 1 /\ v.lines = SecondRemoved
        /\ mon.phase = "wcwuu" =>
                Len(con.undoSt) = mon.n0 /\ v.lines = BothRemoved

\* Write, Cut, Write, Undo, Undo: both runes are gone after the second Undo,
\* and the first Undo had left one of them.
TwoUndosAfterCut ==
    /\ ~v.abort /\ mon.phase = "wcwuu"
    /\ v.lines = BothRemoved /\ v.lines # SecondRemoved
    /\ Len(con.redoSt) >= 2

\* Write, Write, Undo: the one Undo has taken out both runes.
OneUndoOfTwoWrites ==
    /\ ~v.abort /\ mon.phase = "wwu"
    /\ v.lines = BothRemoved /\ Len(mon.w1.p) = 1

\* C5: Cut clears the merge flag and leaves both stacks as they are, and the
\* first Exec after a Cut pushes its Command as a new undo entry, whatever
\* the kind of the top entry.
CutLaw ==
    [][/\ (last'.op \in {"cut", "arrow"} =>
               /\ ~con'.merge
               /\ con'.undoSt = con.undoSt
               /\ con'.redoSt = con.redoSt)
       /\ ((mon.cutPending /\ last'.exec) =>
               con'.undoSt = Append(con.undoSt, last'.cmd))]_vars

\* Write, Cut, Write: the second write is an entry of its own on top of an
\* entry of the same kind.
CutThenSameKind ==
    /\ mon.phase = "wcw" /\ last.exec
    /\ Len(con.undoSt) = mon.n0 + 2
    /\ Top(con.undoSt) = last.cmd
    /\ con.undoSt[Len(con.undoSt) - 1].kind = last.cmd.kind

\* C6: Undo on a non-empty undo stack takes the top entry off the undo
\* stack and puts it on top of the redo stack, the other entries of both
\* stacks staying in place, clears the merge flag, and leaves the view as
\* one Reverse of that entry leaves it.
UndoLaw ==
    [][(last'.op = "undo" /\ con.undoSt # <<>>) =>
        LET n == Len(con.undoSt)
        IN /\ con'.undoSt = SubSeq(con.undoSt, 1, n - 1)
           /\ con'.redoSt = con.redoSt \o <<con.undoSt[n]>>
           /\ ~con'.merge
           /\ v' = flush(Reverse(v, con.undoSt[n]), g)]_vars

\* An Undo that moved an entry onto a non-empty redo stack and left entries
\* on the undo stack.
UndoMovedEntry ==
    /\ last.op = "undo" /\ last.cmd # NoCmd
    /\ con.undoSt # <<>> /\ Len(con.redoSt) >= 2
    /\ Top(con.redoSt) = last.cmd /\ ~con.merge

Untouched ==
    /\ con' = con
    /\ v'.lines = v.lines
    /\ v'.cx = v.cx /\ v'.cy = v.cy
    /\ v'.ox = v.ox /\ v'.oy = v.oy

\* C8: Undo with an empty undo stack and Redo with an empty redo stack
\* change nothing: not the stacks, not the merge flag, not the Lines, not
\* the cursor, not the origin.
ExhaustedNoOp ==
    [][/\ (last'.op = "undo" /\ con.undoSt = <<>>) => Untouched
       /\ (last'.op = "redo" /\ con.redoSt = <<>>) => Untouched]_vars

\* An Undo that found the undo stack empty, the entries it had undone
\* waiting on the redo stack.
ExhaustedUndo ==
    /\ last.op = "undo" /\ last.cmd = NoCmd
    /\ con.undoSt = <<>> /\ con.redoSt # <<>> /\ v.lines # mon.B

(***************************************************************************)
(* The laws of the view lines.                                             *)
(***************************************************************************)
\* The view lines are those of the Lines: View.draw has run since the last
\* change of the buffer.
Untainted == ~v.abort /\ ~v.tainted

\* C9: once the view lines are untainted, every buffer coordinate (x, y)
\* with 0 <= x <= the length of Line y is the realPosition of some view
\* position, a view line and a column of it or the column at its end.
RoundTrip ==
    Untainted =>
        \A y \in 0..(Len(v.lines) - 1) :
            \A x \in 0..Len(v.lines[y + 1]) :
                \E i \in 0..(Len(v.viewLines) - 1) :
                    \E c \in 0..Len(v.viewLines[i + 1].line) :
                        realPosition(v, c - v.ox, i - v.oy)
                            = [x |-> x, y |-> y, err |-> FALSE]

\* A drawn wrapping view with a Line of three view lines, the cursor set on
\* the last of them at the buffer column that ends the Line.
WrappedEndOfLine ==
    /\ Untainted /\ v.Wrap /\ last.op = "cursor"
    /\ Len(v.viewLines) > v.cy
    /\ v.viewLines[v.cy + 1].linesX = 2 * WrapWidth(v)
    /\ CursorPosition(v) =
           [x |-> Len(v.lines[v.viewLines[v.cy + 1].linesY + 1]),
            y |-> v.viewLines[v.cy + 1].linesY, err |-> FALSE]

\* max(1, ceil(len / w)): the view lines a Line of len runes is to take.
SegmentCount(len, w) == IF len = 0 THEN 1 ELSE (len + w - 1) \div w

\* The view lines the Lines before Line y are to take.
RECURSIVE SegmentsBefore(_, _, _)
SegmentsBefore(lines, y, w) ==
    IF y = 0 THEN 0
    ELSE SegmentsBefore(lines, y - 1, w) + SegmentCount(Len(lines[y]), w)

\* The runes k*w .. (k+1)*w - 1 of a Line, as far as it has them.
Segment(line, k, w) ==
    [j \in 1..(IF Len(line) - k * w < w THEN Len(line) - k * w ELSE w)
        |-> line[k * w + j]]

\* C10: a wrapping view of wrap width w > 0 shows a Line of L runes as
\* max(1, ceil(L / w)) consecutive view lines, the k-th of them holding the
\* Line's index, the offset k * w and the at most w runes of the Line from
\* that offset on; a view that does not wrap shows each Line as one view
\* line holding the whole Line.
WrapLaw ==
    Untainted =>
        IF v.Wrap
        THEN LET w == WrapWidth(v)
             IN w > 0 =>
                 /\ Len(v.viewLines) = SegmentsBefore(v.lines, Len(v.lines), w)
                 /\ \A y \in 0..(Len(v.lines) - 1) :
                       \A k \in 0..(SegmentCount(Len(v.lines[y + 1]), w) - 1) :
                         v.viewLines[SegmentsBefore(v.lines, y, w) + k + 1]
                           = [linesX |-> k * w, linesY |-> y,
                              line |-> Segment(v.lines[y + 1], k, w)]
        ELSE /\ Len(v.viewLines) = Len(v.lines)
             /\ \A y \in 0..(Len(v.lines) - 1) :
                   v.viewLines[y + 1]
                     = [linesX |-> 0, linesY |-> y, line |-> v.lines[y + 1]]

\* A drawn wrapping view whose first Line is exactly as long as the wrap
\* width and takes one view line, and whose second Line is one rune longer
\* and takes two, the second of them holding one rune.
WrapBoundary ==
    /\ Untainted /\ v.Wrap /\ WrapWidth(v) > 0
    /\ Len(v.lines) = 2
    /\ Len(v.lines[1]) = WrapWidth(v)
    /\ Len(v.lines[2]) = WrapWidth(v) + 1
    /\ Len(v.viewLines) = 3
    /\ v.viewLines[1].line = v.lines[1]
    /\ Len(v.viewLines[3].line) = 1
    /\ v.viewLines[3].linesX = WrapWidth(v)

\* C11: a second regeneration of the view lines, the buffer and the wrap
\* width being as they were at the first, leaves the view lines as they
\* are: as many, each with the same Line index, offset and runes.
RegenerateTwice ==
    [][last'.op = "redraw" => v'.viewLines = v.viewLines]_vars

\* A wrapping view drawn, tainted and drawn again, a Line of it taking
\* several view lines.
DrawnAgain ==
    /\ last.op = "redraw" /\ Untainted /\ v.Wrap
    /\ Len(v.viewLines) > Len(v.lines)

\* C12: an operation that reads the view lines finds them regenerated:
\* every handler starts with the view lines that the Lines and the wrap
\* width of the moment give.
ReadsRegenerated ==
    [][last'.op = "key"
          => v.viewLines = Regenerate(v.lines, 0, v.Wrap, WrapWidth(v))]_vars

\* The wrapping view of wrap width 5 after n runes of Hello and no move.
Typed(n) ==
    /\ ~v.abort /\ v.Wrap /\ WrapWidth(v) = 5
    /\ mon.steps = n /\ mon.n0 = 0

\* C13: in an empty wrapping view of wrap width 5, drawn after each key,
\* the writes of H, e, l, l, o leave the one Line "Hello" and the view
\* lines ["Hello"]; the write of ! makes the Line "Hello!" and the view
\* lines ["Hello", "!"], the cursor's real position being the end of the
\* Line.
HelloLaw ==
    /\ Typed(5) =>
          /\ v.lines = << SubSeq(Hello, 1, 5) >>
          /\ v.viewLines
                = << [linesX |-> 0, linesY |-> 0, line |-> SubSeq(Hello, 1, 5)] >>
    /\ Typed(6) =>
          /\ v.lines = << Hello >>
          /\ v.viewLines
                = << [linesX |-> 0, linesY |-> 0, line |-> SubSeq(Hello, 1, 5)],
                     [linesX |-> 5, linesY |-> 0, line |-> <<"!">>] >>
          /\ CursorPosition(v) = [x |-> 6, y |-> 0, err |-> FALSE]

\* Hello! is typed into the view of wrap width 5, the cursor is on the
\* second view line.
HelloTyped == Typed(6) /\ v.cy = 1 /\ Untainted

\* C14: with "Hello!" typed into the empty wrapping view of wrap width 5,
\* six moves to the left leave the cursor at column 0 of the first view
\* line, the real position (0, 0).
SixLeftsHome ==
    (~v.abort /\ v.Wrap /\ WrapWidth(v) = 5 /\ mon.steps = 6 /\ mon.n0 = 6)
        => /\ v.cx = 0 /\ v.cy = 0 /\ v.ox = 0 /\ v.oy = 0
           /\ CursorPosition(v) = [x |-> 0, y |-> 0, err |-> FALSE]

\* The step is the key of a delete, backward or forward.
DeleteStep(back) ==
    /\ last'.op = "delete"
    /\ Untainted
    /\ v' = flush(EditDelete(v, back), g)

JoinAt(lines, y) ==
    Slice(lines, 0, y) \o <<lines[y + 1] \o lines[y + 2]>>
    \o SliceFrom(lines, y + 2)

\* C17: a forward delete with the cursor's real position (x, y) before the
\* end of Line y removes the rune at (x, y) and nothing else; at the end of
\* a Line that is not the last it appends the next Line to Line y; at the
\* end of the last Line it leaves the Lines as they are.
ForwardDeleteLaw ==
    [][LET rp == CursorPosition(v)
       IN (/\ DeleteStep(FALSE)
           /\ ~rp.err
           /\ rp.y < Len(v.lines)
           /\ rp.x <= Len(v.lines[rp.y + 1]))
             => v'.lines
                  = IF rp.x < Len(v.lines[rp.y + 1])
                    THEN RemoveAt(v.lines, rp.x, rp.y)
                    ELSE IF rp.y < Len(v.lines) - 1
                         THEN JoinAt(v.lines, rp.y)
                         ELSE v.lines]_vars

\* C18: a backward delete with the cursor's real position (x, y), x > 0,
\* removes the rune at (x - 1, y) and leaves the cursor's real position at
\* (x - 1, y); at column 0 of a Line y > 0 it appends Line y to Line y - 1
\* and leaves the cursor's real position at the former end of Line y - 1.
BackwardDeleteLaw ==
    [][LET rp == CursorPosition(v)
       IN (/\ DeleteStep(TRUE)
           /\ ~rp.err
           /\ rp.y < Len(v.lines)
           /\ rp.x <= Len(v.lines[rp.y + 1])
           /\ (rp.x > 0 \/ rp.y > 0))
             => /\ ~v'.abort
                /\ IF rp.x > 0
                   THEN /\ v'.lines = RemoveAt(v.lines, rp.x - 1, rp.y)
                        /\ CursorPosition(v')
                             = [x |-> rp.x - 1, y |-> rp.y, err |-> FALSE]
                   ELSE /\ v'.lines = JoinAt(v.lines, rp.y - 1)
                        /\ CursorPosition(v')
                             = [x |-> Len(v.lines[rp.y]), y |-> rp.y - 1,
                                err |-> FALSE]]_vars

\* The Lines with Line y cut in two at column x (0-based).
SplitAt(lines, x, y) ==
    Slice(lines, 0, y)
    \o << Slice(lines[y + 1], 0, x), SliceFrom(lines[y + 1], x) >>
    \o SliceFrom(lines, y + 1)

\* The cursor is at column 0 of a wrapped segment that is not the first of
\* its Line.
AtWrappedStart(w) ==
    /\ w.Wrap /\ w.cx = 0
    /\ w.oy + w.cy < Len(w.viewLines)
    /\ w.viewLines[w.oy + w.cy + 1].linesX > 0

\* C19: NewLine with the cursor at the real position (x, y) of a Line cuts
\* Line y at column x and leaves the cursor's real position at (0, y + 1):
\* cursor and origin stay as they are when the cursor was at column 0 of a
\* wrapped segment that is not the first, otherwise the cursor goes to
\* column 0 of the next view line.
NewLineLaw ==
    [][LET rp == CursorPosition(v)
       IN (/\ last'.op = "newline"
           /\ Untainted
           /\ ~rp.err
           /\ rp.y < Len(v.lines)
           /\ rp.x <= Len(v.lines[rp.y + 1]))
             => /\ ~v'.abort
                /\ v'.lines = SplitAt(v.lines, rp.x, rp.y)
                /\ CursorPosition(v')
                     = [x |-> 0, y |-> rp.y + 1, err |-> FALSE]
                /\ IF AtWrappedStart(v)
                   THEN /\ v'.cx = v.cx /\ v'.cy = v.cy
                        /\ v'.ox = v.ox /\ v'.oy = v.oy
                   ELSE /\ v'.ox + v'.cx = 0
                        /\ v'.oy + v'.cy = v.oy + v.cy + 1]_vars

\* A Line cut by NewLine in its middle, at a point where it wrapped: the
\* cursor is at column 0 of the view line of the runes cut off.
CutAtWrap ==
    /\ Untainted /\ v.Wrap
    /\ last.op = "newline" /\ last.cmd.kind = "NewLine"
    /\ last.cmd.x > 0 /\ last.cmd.x % WrapWidth(v) = 0
    /\ Len(v.lines) > last.cmd.y + 1
    /\ v.lines[last.cmd.y + 2] # <<>>
    /\ CursorPosition(v) = [x |-> 0, y |-> last.cmd.y + 1, err |-> FALSE]

\* C20: absWriteRune(x, y, ch) with x, y >= 0 leaves at least y + 1 Lines
\* and ch at column x of Line y.  With x below the former length of Line y
\* the runes from x on move right by one in insert mode and only column x
\* changes in overwrite mode; with x at or beyond it the Line is filled up
\* to the length x + 1.  No other Line that existed changes.  With x < 0
\* or y < 0 the call fails and the Lines are as before.
WriteRuneLaw ==
    last.op = "absWriteRune" =>
        LET x == last.cmd.x
            y == last.cmd.y
            ch == last.cmd.p[1]
            A == mon.A
            old == IF y >= 0 /\ y < Len(A) THEN A[y + 1] ELSE <<>>
            new == v.lines[y + 1]
        IN IF x < 0 \/ y < 0
           THEN absWriteRuneFails(v, x, y) /\ v.lines = A
           ELSE /\ ~absWriteRuneFails(v, x, y)
                /\ Len(v.lines) >= y + 1
                /\ Len(v.lines) >= Len(A)
                /\ new[x + 1] = ch
                /\ \A i \in 1..Len(A) : i # y + 1 => v.lines[i] = A[i]
                /\ IF x < Len(old)
                   THEN IF v.Overwrite
                        THEN /\ Len(new) = Len(old)
                             /\ \A i \in 1..Len(old) :
                                   i # x + 1 => new[i] = old[i]
                        ELSE /\ Len(new) = Len(old) + 1
                             /\ \A i \in 1..x : new[i] = old[i]
                             /\ \A i \in (x + 1)..Len(old) :
                                   new[i + 1] = old[i]
                   ELSE /\ Len(new) = x + 1
                        /\ \A i \in 1..Len(old) : new[i] = old[i]
                        /\ \A i \in (Len(old) + 1)..x : new[i] = NUL

\* A rune inserted in the middle of a Line of a buffer of two Lines.
InsertedMidLine ==
    /\ last.op = "absWriteRune" /\ ~v.Overwrite
    /\ Len(mon.A) = 2
    /\ last.cmd.y = 0 /\ last.cmd.x > 0 /\ last.cmd.x < Len(mon.A[1])
    /\ Len(v.lines[1]) = Len(mon.A[1]) + 1

\* C21: absBreakLine(x, y) on a Line y with 0 <= x <= its length leaves
\* one Line more: the Lines before y are as they were, Line y holds its
\* first x runes, Line y + 1 the runes after them, and every former Line
\* j > y is Line j + 1.
BreakLineLaw ==
    LET x == last.cmd.x
        y == last.cmd.y
        A == mon.A
    IN (/\ last.op = "absBreakLine"
        /\ y >= 0 /\ y < Len(A)
        /\ x >= 0 /\ x <= Len(A[y + 1]))
          => /\ ~v.abort
             /\ ~absBreakLineFails([v EXCEPT !.lines = A], x, y)
             /\ Len(v.lines) = Len(A) + 1
             /\ \A i \in 1..y : v.lines[i] = A[i]
             /\ v.lines[y + 1] = SubSeq(A[y + 1], 1, x)
             /\ v.lines[y + 2] = SubSeq(A[y + 1], x + 1, Len(A[y + 1]))
             /\ v.lines[y + 1] \o v.lines[y + 2] = A[y + 1]
             /\ \A j \in (y + 2)..Len(A) : v.lines[j + 1] = A[j]

\* The first of two Lines broken in its middle.
BrokenMidLine ==
    /\ last.op = "absBreakLine" /\ ~v.abort
    /\ Len(mon.A) = 2 /\ Len(v.lines) = 3
    /\ last.cmd.y = 0 /\ last.cmd.x > 0 /\ last.cmd.x < Len(mon.A[1])
    /\ v.lines[3] # <<>>

\* C22: absMergeLines(y) on a Line y that is not the last makes Line y the
\* former Line y followed by the former Line y + 1 and removes Line y + 1,
\* the Lines after it moving up by one; on the last Line it fails and
\* every Line is as it was.
MergeLinesLaw ==
    LET y == last.cmd.y
        A == mon.A
    IN (last.op = "absMergeLines" /\ y >= 0 /\ y < Len(A))
          => /\ ~v.abort
             /\ IF y < Len(A) - 1
                THEN /\ ~absMergeLinesFails([v EXCEPT !.lines = A], y)
                     /\ Len(v.lines) = Len(A) - 1
                     /\ \A i \in 1..y : v.lines[i] = A[i]
                     /\ v.lines[y + 1] = A[y + 1] \o A[y + 2]
                     /\ \A j \in (y + 3)..Len(A) : v.lines[j - 1] = A[j]
                ELSE /\ absMergeLinesFails([v EXCEPT !.lines = A], y)
                     /\ v.lines = A

\* Two Lines with runes merged into one.
MergedTwoLines ==
    /\ last.op = "absMergeLines" /\ last.cmd.y = 0
    /\ Len(mon.A) = 2 /\ mon.A[1] # <<>> /\ mon.A[2] # <<>>
    /\ Len(v.lines) = 1

\* The state follows the call of a buffer primitive.
PrimitiveCalled ==
    last.op \in {"absWriteRune", "absDeleteRune", "absBreakLine",
                 "absMergeLines", "permutLines"}

\* C23: when a buffer primitive returns, the view is tainted.
PrimitiveTaints == PrimitiveCalled => v.tainted

\* The view points realPosition is asked about.
ViewPoints == (-3..(MaxLineLen + 1)) \X (-3..(MaxLines + 4))

\* C24: with the view lines regenerated, realPosition(vx, vy) fails exactly
\* when ox + vx < 0 or oy + vy < 0.  For a row oy + vy of the view lines it
\* returns that view line's offset plus ox + vx and that view line's Line;
\* for a row k >= 1 below the last view line it returns the column ox + vx
\* and the Line k after the Line of the last view line.
RealPositionLaw ==
    Untainted =>
        \A pt \in ViewPoints :
            LET col == v.ox + pt[1]
                row == v.oy + pt[2]
                n == Len(v.viewLines)
                rp == realPosition(v, pt[1], pt[2])
            IN /\ rp.err <=> (col < 0 \/ row < 0)
               /\ (~rp.err /\ row < n)
                     => /\ rp.x = v.viewLines[row + 1].linesX + col
                        /\ rp.y = v.viewLines[row + 1].linesY
               /\ (~rp.err /\ n > 0 /\ row >= n)
                     => /\ rp.x = col
                        /\ rp.y = v.viewLines[n].linesY + (row - (n - 1))

\* A drawn view of wrapped Lines, scrolled down and to the right: rows of
\* the viewport lie below the last view line.
ScrolledWrapped ==
    /\ Untainted /\ last.op = "origin"
    /\ v.oy > 0 /\ v.ox > 0
    /\ Len(v.viewLines) > Len(v.lines)
    /\ v.oy + Size(v).y > Len(v.viewLines)

\* C25: the regeneration of a wrapping view whose wrap width is zero or
\* negative fails: View.draw returns its error, makes no view lines and
\* does not abort.
WrapWidthZeroLaw ==
    (last.op = "draw" /\ v.Wrap /\ WrapWidth(v) <= 0)
        => /\ ~v.abort
           /\ drawFails(v)
           /\ v.viewLines = <<>>

\* C26: MoveCursor(dx, dy, writeMode), called with the cursor anywhere in
\* the viewport, rows below the last view line included, returns: no
\* access out of range aborts it.
MoveNeverAborts == last.op = "move" => ~v.abort

\* C27: a buffer primitive called with any coordinates, negative ones and
\* ones beyond the buffer included, returns, with or without an error: it
\* does not abort.
PrimitiveReturns == PrimitiveCalled => ~v.abort

\* C28: the loop runs the handlers in the order of the calls of Execute:
\* a handler handed over by an earlier call runs before one handed over by
\* a later call.
RunsInOrder ==
    \A i, j \in 1..Len(mon.ran) : i < j => mon.ran[i] < mon.ran[j]

\* The stream p from its i-th rune on, cut at the line feeds.
RECURSIVE SplitLF(_, _, _)
SplitLF(p, i, cur) ==
    IF i > Len(p) THEN <<cur>>
    ELSE IF p[i] = "\n" THEN <<cur>> \o SplitLF(p, i + 1, <<>>)
    ELSE SplitLF(p, i + 1, Append(cur, p[i]))

\* C29: Write of a stream (of one rune at least) of k line feeds and no
\* carriage return into an empty view leaves the k + 1 Lines the line
\* feeds cut the stream into; whatever the view and the stream, Write
\* changes no Line before the last.
WriteSplitsOnLF ==
    last.op = "Write" =>
        LET p == last.cmd.p
            A == mon.A
        IN /\ (A = <<>> /\ p # <<>> /\ \A i \in 1..Len(p) : p[i] # "\r")
                 => v.lines = SplitLF(p, 1, <<>>)
           /\ Len(v.lines) >= Len(A)
           /\ \A i \in 1..(Len(A) - 1) : v.lines[i] = A[i]

\* The cursor stands where moveOneRuneForward(writeMode) crosses to the next
\* view line: on a Line of the buffer, not at the end of the buffer, at the
\* end of a Line outside write mode or at the right edge of a wrapping view.
Crosses(w, writeMode) ==
    /\ ~isEmpty(w)
    /\ ~realPosition(w, w.cx, w.cy).err
    /\ realPosition(w, w.cx, w.cy).y < Len(w.lines)
    /\ ~(lastLine(w) /\ eol(w))
    /\ IF eol(w) THEN ~writeMode ELSE eov(w) /\ w.Wrap

\* C30: a step to the right that crosses to the next view line advances
\* oy + cy by one: on the last visible row oy grows by one and cy stays,
\* elsewhere cy grows by one and oy stays; the column becomes 1 when the
\* step continues a wrapped Line and 0 when it enters the next Line.
StepRightCrosses ==
    [][(last'.op = "stepRight" /\ Crosses(v, last'.cmd.n = 1))
          => /\ ~v'.abort
             /\ v'.oy + v'.cy = v.oy + v.cy + 1
             /\ IF lastBufferLine(v)
                THEN v'.oy = v.oy + 1 /\ v'.cy = v.cy
                ELSE v'.oy = v.oy /\ v'.cy = v.cy + 1
             /\ v'.cx = IF eol(v) THEN 0 ELSE 1]_vars

\* C31: a step down outside write mode, the view lines regenerated and the
\* cursor on view line i, lands on view line i + 1 when there is one, a
\* later segment of the last Line included, and stays only on the last
\* view line.
StepDownLaw ==
    [][(/\ last'.op = "move"
        /\ last'.cmd.x = 0 /\ last'.cmd.y = 1 /\ last'.cmd.n = 0
        /\ ~v.tainted
        /\ v.oy + v.cy < Len(v.viewLines))
          => /\ ~v'.abort
             /\ v'.oy + v'.cy = IF v.oy + v.cy + 1 < Len(v.viewLines)
                                THEN v.oy + v.cy + 1
                                ELSE v.oy + v.cy]_vars

\* The cursor's real position is the end of the last Line, or the buffer
\* has no Line.
AtBufferEnd(w) ==
    LET rp == realPosition(w, w.cx, w.cy)
    IN \/ w.lines = <<>>
       \/ /\ ~rp.err
          /\ rp.y = Len(w.lines) - 1
          /\ rp.x = Len(w.lines[Len(w.lines)])

\* The cursor is on column 0 of the first view line, nothing scrolled
\* sideways.
AtBufferStart(w) == w.oy + w.cy = 0 /\ w.ox = 0 /\ w.cx = 0

\* C32: a step to the right at the end of the buffer, in either write mode,
\* and a step to the left at the start of the buffer, change neither the
\* origin nor the cursor.
BoundaryStepsStay ==
    [][(\/ last'.op = "stepRight" /\ AtBufferEnd(v)
        \/ last'.op = "stepLeft" /\ AtBufferStart(v))
          => /\ ~v'.abort
             /\ <<v'.ox, v'.oy, v'.cx, v'.cy>> = <<v.ox, v.oy, v.cx, v.cy>>]_vars

\* A step to the right in write mode was made at the end of the last Line
\* of a buffer of two Lines.
SteppedAtEnd ==
    /\ last.op = "stepRight"
    /\ last.cmd.n = 1
    /\ Len(v.lines) = 2
    /\ Len(v.lines[2]) > 0
    /\ AtBufferEnd(v)

\* C33: MoveCursor(dx, dy, false), called with the view lines regenerated
\* and the cursor on a view line, leaves the cursor on a view line, its
\* column ox + cx no further than the end of that view line.
MoveStaysOnText ==
    [][(/\ last'.op = "move"
        /\ last'.cmd.n = 0
        /\ ~v.tainted
        /\ v.oy + v.cy < Len(v.viewLines))
          => /\ ~v'.abort
             /\ v'.oy + v'.cy >= 0
             /\ v'.oy + v'.cy < Len(v.viewLines)
             /\ v'.ox + v'.cx
                   <= Len(v.viewLines[v'.oy + v'.cy + 1].line)]_vars

\* C34: a backward delete with the cursor at the start of the buffer and a
\* forward delete with the cursor at the end of the last Line leave the
\* Lines, the cursor and the origin as they were, and do not abort.
InvalidDeleteInert ==
    [][(\/ DeleteStep(TRUE) /\ AtBufferStart(v)
        \/ DeleteStep(FALSE) /\ v.lines # <<>> /\ AtBufferEnd(v))
          => /\ ~v'.abort
             /\ v'.lines = v.lines
             /\ <<v'.ox, v'.oy, v'.cx, v'.cy>> = <<v.ox, v.oy, v.cx, v.cy>>]_vars

\* A forward delete was made with the cursor at the end of the last Line of
\* a buffer of two Lines, and recorded nothing.
DeletedAtEnd ==
    /\ last.op = "delete"
    /\ ~last.exec
    /\ Len(v.lines) = 2
    /\ Len(v.lines[2]) > 0
    /\ AtBufferEnd(v)

\* C35: whenever the log is mergeable its redo stack is empty and its undo
\* stack is not: the merge path of Exec never leaves an entry to redo.
MergeableLaw == con.merge => (con.redoSt = <<>> /\ con.undoSt # <<>>)

\* A write was merged into the second entry of the undo stack.
MergedOnSecond ==
    /\ con.merge
    /\ last.op = "write"
    /\ last.exec
    /\ Len(con.undoSt) = 2
    /\ Len(Top(con.undoSt).p) >= 2

\* C36: the origin and the cursor of a view are never negative, whatever
\* the moves, the edits and the renders made and whatever the size of the
\* view.
NonNegative ==
    ~v.abort => (v.ox >= 0 /\ v.oy >= 0 /\ v.cx >= 0 /\ v.cy >= 0)

\* The Command c puts runes back: the Undo of a rune delete, the Redo of a
\* write.  InsertAt(c) is the column where its runes go.
PutsBack(op, c) ==
    \/ op = "undo" /\ c.kind \in {"FwdDelete", "BackDelete"}
    \/ op = "redo" /\ c.kind = "Write"

InsertAt(c) == IF c.kind = "BackDelete" THEN c.x - Len(c.p) ELSE c.x

\* C37: the Undo of a rune delete and the Redo of a write, merged or not,
\* insert the runes of the Command, in their order, in the Line, the
\* Overwrite flag of the view being set or not.
PutBackInserts ==
    [][(/\ ~v.abort
        /\ PutsBack(last'.op, last'.cmd)
        /\ last'.cmd.y < Len(v.lines)
        /\ InsertAt(last'.cmd) \in 0..Len(v.lines[last'.cmd.y + 1]))
          => LET c == last'.cmd
                 line == v.lines[c.y + 1]
                 at == InsertAt(c)
             IN /\ ~v'.abort
                /\ v'.lines = [v.lines EXCEPT
                                 ![c.y + 1] =
                                     SubSeq(line, 1, at) \o c.p
                                     \o SubSeq(line, at + 1, Len(line))]]_vars

\* C38: the Lines a sequence of line moves, merged or not, led from A to B
\* are in the order A once Undo has reversed every recorded move, and in
\* the order B once Redo has executed every move again.
LineMovesInverse ==
    ~v.abort =>
        /\ (con.undoSt = <<>> /\ last.op = "undo" => v.lines = mon.A)
        /\ (con.redoSt = <<>> /\ last.op = "redo" => v.lines = mon.B)

\* C39: a call of Mode, of SetKeybinding, or of AddMode with the name of a
\* Mode that exists leaves the current Mode of the Gui as it was: only
\* SetCurrentMode switches.
LookupKeepsMode ==
    [][(\/ last'.op \in {"Mode", "SetKeybinding"}
        \/ /\ last'.op = "AddMode"
           /\ \E i \in 1..Len(g.modes) : g.modes[i].name = last'.cmd.p[1])
          => g'.currentMode = g.currentMode]_vars

====
